---------------------------- MODULE Spec2Model ----------------------------
(***************************************************************************)
(* Health Scoring Engine of the SEO audit tool (src/lib/analyzer.ts).      *)
(*                                                                         *)
(* analyzeHealth(audit, vitals) runs 15 category analyzers, sums their     *)
(* weightedScore values, rounds the sum to the overall score, derives the  *)
(* grade and returns the category list with the severity-sorted issues.    *)
(*                                                                         *)
(* Scores are JavaScript numbers.  The category scores are small integers, *)
(* but weightedScore, the running sum and the image / alt-text ratios are  *)
(* IEEE-754 doubles, and the result of Math.round depends on their         *)
(* rounding.  The doubles that occur (all in [0, 256), all multiples of    *)
(* 2^-59) are modelled exactly as fixed-point numbers: a value x is the    *)
(* tuple of five base-2^14 limbs (least significant first) of x * 2^59.    *)
(***************************************************************************)
EXTENDS Integers, Sequences, FiniteSets, Bags, TLC

(***************************************************************************)
(* IEEE-754 double arithmetic on the values the analyzer computes.         *)
(***************************************************************************)
LimbBase == 2^14

\* carry propagation: limbs that may exceed the base -> canonical limbs
Norm(t) ==
    LET x2 == t[2] + (t[1] \div LimbBase)
        x3 == t[3] + (x2 \div LimbBase)
        x4 == t[4] + (x3 \div LimbBase)
        x5 == t[5] + (x4 \div LimbBase)
    IN  <<t[1] % LimbBase, x2 % LimbBase, x3 % LimbBase, x4 % LimbBase, x5>>

\* the double with the integer value n (0 <= n < 2^11): n * 2^59 = (8n) * 2^56
FromInt(n) == <<0, 0, 0, 0, 8 * n>>

\* number of significant bits of a limb
LimbBits(x) == IF x = 0 THEN 0 ELSE CHOOSE b \in 1..31 : 2^(b - 1) <= x /\ x \div 2 < 2^(b - 1)

BitLen(t) ==
    IF t[5] # 0 THEN 56 + LimbBits(t[5])
    ELSE IF t[4] # 0 THEN 42 + LimbBits(t[4])
    ELSE IF t[3] # 0 THEN 28 + LimbBits(t[3])
    ELSE IF t[2] # 0 THEN 14 + LimbBits(t[2])
    ELSE LimbBits(t[1])

\* Round an exact value to the nearest double, ties to even (the IEEE-754
\* default JavaScript uses).  t holds the value truncated to a multiple of
\* 2^-59 and frac says what was cut off below 2^-59: 0 nothing, 1 less than
\* half a unit, 2 exactly half, 3 more than half.  A double has 53
\* significant bits, so the d = BitLen - 53 low bits are rounded away; every
\* value here is below 2^8, so d <= 14 and the bits lie in the lowest limb.
RoundToDouble(t, frac) ==
    LET d == BitLen(t) - 53
    IN  IF d <= 0
        THEN IF frac = 3 \/ (frac = 2 /\ t[1] % 2 = 1)
             THEN Norm(<<t[1] + 1, t[2], t[3], t[4], t[5]>>)
             ELSE t
        ELSE LET rem  == t[1] % (2^d)
                 half == 2^(d - 1)
                 qodd == IF d = 14 THEN t[2] % 2 = 1 ELSE (t[1] \div (2^d)) % 2 = 1
                 up   == \/ rem > half
                         \/ rem = half /\ frac > 0
                         \/ rem = half /\ frac = 0 /\ qodd
             IN  Norm(<<t[1] - rem + (IF up THEN 2^d ELSE 0), t[2], t[3], t[4], t[5]>>)

\* a + b on doubles
FAdd(a, b) ==
    RoundToDouble(Norm(<<a[1] + b[1], a[2] + b[2], a[3] + b[3], a[4] + b[4], a[5] + b[5]>>), 0)

\* a * k on doubles, k a small non-negative integer
FMulInt(a, k) ==
    RoundToDouble(Norm(<<a[1] * k, a[2] * k, a[3] * k, a[4] * k, a[5] * k>>), 0)

\* num / den on doubles, for integers 0 <= num < 2^11 and 0 < den <= 2^7
\* with num = 0 or num / den >= 2^-7: long division of num * 2^59 by den
FDivInt(num, den) ==
    LET c5 == 8 * num
        r5 == c5 % den
        c4 == r5 * LimbBase
        r4 == c4 % den
        c3 == r4 * LimbBase
        r3 == c3 % den
        c2 == r3 * LimbBase
        r2 == c2 % den
        c1 == r2 * LimbBase
        r1 == c1 % den
        frac == IF r1 = 0 THEN 0 ELSE IF 2 * r1 < den THEN 1 ELSE IF 2 * r1 = den THEN 2 ELSE 3
    IN  RoundToDouble(Norm(<<c1 \div den, c2 \div den, c3 \div den, c4 \div den, c5 \div den>>), frac)

\* Math.round(x): the nearest integer, halves rounded up (x >= 0)
MathRound(x) == (x[5] \div 8) + (IF x[5] % 8 >= 4 THEN 1 ELSE 0)

\* x < n and x > 1/2 on doubles, n an integer
FLessInt(x, n) == x[5] < 8 * n
FGreaterHalf(x) == x[5] > 4 \/ (x[5] = 4 /\ (x[1] + x[2] + x[3] + x[4]) > 0)


(***************************************************************************)
(* Values of the data model.  An optional sub-record that is absent        *)
(* (undefined in JavaScript) is the record undefined; an absent or empty   *)
(* string is "".                                                           *)
(***************************************************************************)
undefined == [undefined |-> TRUE]
Defined(x) == "undefined" \notin DOMAIN x

Max(a, b) == IF a >= b THEN a ELSE b
Min(a, b) == IF a <= b THEN a ELSE b

\* a HealthIssue; the recommendation text is fixed by the message and the
\* numbers interpolated into a message are left out
Issue(severity, category, message) ==
    [severity |-> severity, category |-> category, message |-> message]

\* if (cond) issues.push(issue)
PushIf(cond, issue) == IF cond THEN <<issue>> ELSE <<>>

\* arr.filter(test).length
CountIf(arr, Test(_)) == Cardinality({i \in 1..Len(arr) : Test(arr[i])})

\* weightedScore: (score / 100) * maxScore
Weighted(score, maxScore) == FMulInt(FDivInt(score, 100), maxScore)

\* the generic formula in place of the rounded one
WeightedRounded_Generic(score, maxScore) == FMulInt(FDivInt(score, 100), maxScore)

\* weightedScore: Math.round(score * maxScore) / 100, score an integer
WeightedRounded(score, maxScore) == FDivInt(score * maxScore, 100)

HealthCategory(name, score, maxScore, weightedScore, issues) ==
    [name |-> name, score |-> score, maxScore |-> maxScore,
     weightedScore |-> weightedScore, issues |-> issues]

(***************************************************************************)
(* Phase 1 category analyzers                                              *)
(***************************************************************************)
\* the length checks run for a missing title as well (the else dropped)
analyzeTitleTag_NoElse(audit) ==
    LET maxScore == 7
        missing == audit.meta.title = ""
        short == audit.meta.titleLength < 30
        long == ~short /\ audit.meta.titleLength > 60
        issues ==
            PushIf(missing, Issue("critical", "Title Tag", "Page is missing a title tag."))
            \o PushIf(short, Issue("warning", "Title Tag", "Title tag is too short."))
            \o PushIf(long, Issue("notice", "Title Tag", "Title tag is too long and may be truncated."))
        raw == (IF missing THEN 0 ELSE 100) - (IF short THEN 40 ELSE 0) - (IF long THEN 20 ELSE 0)
        score == Max(0, raw)
    IN  HealthCategory("Title Tag", score, maxScore, Weighted(score, maxScore), issues)

analyzeTitleTag(audit) ==
    LET maxScore == 7
        missing == audit.meta.title = ""
        short == ~missing /\ audit.meta.titleLength < 30
        long == ~missing /\ ~short /\ audit.meta.titleLength > 60
        issues ==
            PushIf(missing, Issue("critical", "Title Tag", "Page is missing a title tag."))
            \o PushIf(short, Issue("warning", "Title Tag", "Title tag is too short."))
            \o PushIf(long, Issue("notice", "Title Tag", "Title tag is too long and may be truncated."))
        raw == IF missing THEN 0
               ELSE 100 - (IF short THEN 40 ELSE 0) - (IF long THEN 20 ELSE 0)
        score == Max(0, raw)
    IN  HealthCategory("Title Tag", score, maxScore, Weighted(score, maxScore), issues)

\* the over-length deduction taken as 30, like the under-length one
analyzeMetaDescription_LongAsShort(audit) ==
    LET maxScore == 6
        missing == audit.meta.description = ""
        short == ~missing /\ audit.meta.descriptionLength < 120
        long == ~missing /\ ~short /\ audit.meta.descriptionLength > 160
        issues ==
            PushIf(missing, Issue("critical", "Meta Description", "Page is missing a meta description."))
            \o PushIf(short, Issue("warning", "Meta Description", "Meta description is short."))
            \o PushIf(long, Issue("notice", "Meta Description", "Meta description may be truncated."))
        raw == IF missing THEN 0
               ELSE 100 - (IF short THEN 30 ELSE 0) - (IF long THEN 30 ELSE 0)
        score == Max(0, raw)
    IN  HealthCategory("Meta Description", score, maxScore, Weighted(score, maxScore), issues)

analyzeMetaDescription(audit) ==
    LET maxScore == 6
        missing == audit.meta.description = ""
        short == ~missing /\ audit.meta.descriptionLength < 120
        long == ~missing /\ ~short /\ audit.meta.descriptionLength > 160
        issues ==
            PushIf(missing, Issue("critical", "Meta Description", "Page is missing a meta description."))
            \o PushIf(short, Issue("warning", "Meta Description", "Meta description is short."))
            \o PushIf(long, Issue("notice", "Meta Description", "Meta description may be truncated."))
        raw == IF missing THEN 0
               ELSE 100 - (IF short THEN 30 ELSE 0) - (IF long THEN 15 ELSE 0)
        score == Max(0, raw)
    IN  HealthCategory("Meta Description", score, maxScore, Weighted(score, maxScore), issues)

\* audit.headings.find((h) => h.tag === tag): the first entry, or undefined
FindHeading(headings, tag) ==
    LET hits == {i \in 1..Len(headings) : headings[i].tag = tag}
    IN  IF hits = {} THEN undefined
        ELSE headings[CHOOSE i \in hits : \A j \in hits : i <= j]

\* two H1 tags tolerated: the multiple-H1 test as h1.count > 2
analyzeHeadings_TwoAllowed(audit) ==
    LET maxScore == 7
        h1 == FindHeading(audit.headings, "h1")
        h2 == FindHeading(audit.headings, "h2")
        noH1 == ~Defined(h1)
        multiH1 == Defined(h1) /\ h1.count > 2
        noH2 == ~Defined(h2)
        issues ==
            PushIf(noH1, Issue("critical", "Headings", "Page is missing an H1 heading."))
            \o PushIf(multiH1, Issue("warning", "Headings", "Multiple H1 tags found."))
            \o PushIf(noH2, Issue("notice", "Headings", "No H2 headings found."))
        raw == 100 - (IF noH1 THEN 60 ELSE 0) - (IF multiH1 THEN 30 ELSE 0)
                   - (IF noH2 THEN 20 ELSE 0)
        score == Max(0, raw)
    IN  HealthCategory("Heading Structure", score, maxScore, Weighted(score, maxScore), issues)

\* a missing H1 deducts 80 instead of 60
analyzeHeadings_MissingH1Costs80(audit) ==
    LET maxScore == 7
        h1 == FindHeading(audit.headings, "h1")
        h2 == FindHeading(audit.headings, "h2")
        noH1 == ~Defined(h1)
        multiH1 == Defined(h1) /\ h1.count > 1
        noH2 == ~Defined(h2)
        issues ==
            PushIf(noH1, Issue("critical", "Headings", "Page is missing an H1 heading."))
            \o PushIf(multiH1, Issue("warning", "Headings", "Multiple H1 tags found."))
            \o PushIf(noH2, Issue("notice", "Headings", "No H2 headings found."))
        raw == 100 - (IF noH1 THEN 80 ELSE 0) - (IF multiH1 THEN 30 ELSE 0)
                   - (IF noH2 THEN 20 ELSE 0)
        score == Max(0, raw)
    IN  HealthCategory("Heading Structure", score, maxScore, Weighted(score, maxScore), issues)

analyzeHeadings(audit) ==
    LET maxScore == 7
        h1 == FindHeading(audit.headings, "h1")
        h2 == FindHeading(audit.headings, "h2")
        noH1 == ~Defined(h1)
        multiH1 == Defined(h1) /\ h1.count > 1
        noH2 == ~Defined(h2)
        issues ==
            PushIf(noH1, Issue("critical", "Headings", "Page is missing an H1 heading."))
            \o PushIf(multiH1, Issue("warning", "Headings", "Multiple H1 tags found."))
            \o PushIf(noH2, Issue("notice", "Headings", "No H2 headings found."))
        raw == 100 - (IF noH1 THEN 60 ELSE 0) - (IF multiH1 THEN 30 ELSE 0)
                   - (IF noH2 THEN 20 ELSE 0)
        score == Max(0, raw)
    IN  HealthCategory("Heading Structure", score, maxScore, Weighted(score, maxScore), issues)

NextGenFormats == {"webp", "avif", "svg"}

\* half of the images without alt text already reported as critical
analyzeImages_HalfIsCritical(audit) ==
    LET maxScore == 6
        n == Len(audit.images)
        NoAlt(img) == ~img.hasAlt
        NotNextGen(img) == img.format # "" /\ img.format \notin NextGenFormats
        NoLazy(img) == ~img.hasLazyLoading
        missingAlt == CountIf(audit.images, NoAlt)
        nonNextGen == CountIf(audit.images, NotNextGen)
        noLazy == CountIf(audit.images, NoLazy)
        none == n = 0
        ratio == FDivInt(missingAlt, n)
        altBad == ~none /\ missingAlt > 0
        formatBad == ~none /\ 2 * nonNextGen > n
        lazyBad == ~none /\ noLazy > 3
        issues ==
            PushIf(none, Issue("notice", "Images", "No images found on the page."))
            \o PushIf(altBad, Issue(IF altBad /\ 2 * missingAlt >= n THEN "critical" ELSE "warning",
                                     "Images", "images missing alt text."))
            \o PushIf(formatBad, Issue("notice", "Images", "images not using next-gen formats (WebP/AVIF)."))
            \o PushIf(lazyBad, Issue("notice", "Images", "images without lazy loading."))
        raw == 100 - (IF none THEN 20 ELSE 0)
                   - (IF altBad THEN MathRound(FMulInt(ratio, 60)) ELSE 0)
                   - (IF formatBad THEN 15 ELSE 0) - (IF lazyBad THEN 10 ELSE 0)
        score == Max(0, raw)
    IN  HealthCategory("Image Optimization", score, maxScore, Weighted(score, maxScore), issues)

analyzeImages(audit) ==
    LET maxScore == 6
        n == Len(audit.images)
        NoAlt(img) == ~img.hasAlt
        NotNextGen(img) == img.format # "" /\ img.format \notin NextGenFormats
        NoLazy(img) == ~img.hasLazyLoading
        missingAlt == CountIf(audit.images, NoAlt)
        nonNextGen == CountIf(audit.images, NotNextGen)
        noLazy == CountIf(audit.images, NoLazy)
        none == n = 0
        ratio == FDivInt(missingAlt, n)
        altBad == ~none /\ missingAlt > 0
        \* nonNextGen.length > audit.images.length * 0.5 (n * 0.5 is exact)
        formatBad == ~none /\ 2 * nonNextGen > n
        lazyBad == ~none /\ noLazy > 3
        issues ==
            PushIf(none, Issue("notice", "Images", "No images found on the page."))
            \o PushIf(altBad, Issue(IF altBad /\ FGreaterHalf(ratio) THEN "critical" ELSE "warning",
                                     "Images", "images missing alt text."))
            \o PushIf(formatBad, Issue("notice", "Images", "images not using next-gen formats (WebP/AVIF)."))
            \o PushIf(lazyBad, Issue("notice", "Images", "images without lazy loading."))
        raw == 100 - (IF none THEN 20 ELSE 0)
                   - (IF altBad THEN MathRound(FMulInt(ratio, 60)) ELSE 0)
                   - (IF formatBad THEN 15 ELSE 0) - (IF lazyBad THEN 10 ELSE 0)
        score == Max(0, raw)
    IN  HealthCategory("Image Optimization", score, maxScore, Weighted(score, maxScore), issues)

\* the broken-link deduction without its cap of 60
analyzeLinks_Uncapped(audit) ==
    LET maxScore == 7
        internal == Len(audit.internalLinks)
        broken == IF Defined(audit.brokenLinks) THEN Len(audit.brokenLinks.list) ELSE 0
        noInternal == internal = 0
        hasBroken == Defined(audit.brokenLinks) /\ broken > 0
        fewInternal == internal > 0 /\ internal < 3
        issues ==
            PushIf(noInternal, Issue("warning", "Links", "No internal links found."))
            \o PushIf(hasBroken, Issue("critical", "Links", "broken link(s) detected."))
            \o PushIf(fewInternal, Issue("notice", "Links", "Very few internal links on the page."))
        raw == 100 - (IF noInternal THEN 40 ELSE 0)
                   - (IF hasBroken THEN broken * 15 ELSE 0)
                   - (IF fewInternal THEN 15 ELSE 0)
        score == Max(0, raw)
    IN  HealthCategory("Link Hygiene", score, maxScore, Weighted(score, maxScore), issues)

analyzeLinks(audit) ==
    LET maxScore == 7
        internal == Len(audit.internalLinks)
        broken == IF Defined(audit.brokenLinks) THEN Len(audit.brokenLinks.list) ELSE 0
        noInternal == internal = 0
        hasBroken == Defined(audit.brokenLinks) /\ broken > 0
        fewInternal == internal > 0 /\ internal < 3
        issues ==
            PushIf(noInternal, Issue("warning", "Links", "No internal links found."))
            \o PushIf(hasBroken, Issue("critical", "Links", "broken link(s) detected."))
            \o PushIf(fewInternal, Issue("notice", "Links", "Very few internal links on the page."))
        raw == 100 - (IF noInternal THEN 40 ELSE 0)
                   - (IF hasBroken THEN Min(60, broken * 15) ELSE 0)
                   - (IF fewInternal THEN 15 ELSE 0)
        score == Max(0, raw)
    IN  HealthCategory("Link Hygiene", score, maxScore, Weighted(score, maxScore), issues)

\* the band limits taken inclusively (<= instead of <)
analyzeContent_InclusiveLimits(audit) ==
    LET maxScore == 10
        wc == audit.wordCount
        issues ==
            PushIf(wc <= 100, Issue("critical", "Content", "Very thin content."))
            \o PushIf(wc > 100 /\ wc <= 300, Issue("warning", "Content", "Content is thin."))
            \o PushIf(wc > 300 /\ wc <= 600, Issue("notice", "Content", "Moderate content."))
        raw == IF wc <= 100 THEN 10
               ELSE IF wc <= 300 THEN 40
               ELSE IF wc <= 600 THEN 65
               ELSE IF wc <= 1000 THEN 80
               ELSE 100
        score == Max(0, raw)
    IN  HealthCategory("Content Depth", score, maxScore, Weighted(score, maxScore), issues)

analyzeContent(audit) ==
    LET maxScore == 10
        wc == audit.wordCount
        issues ==
            PushIf(wc < 100, Issue("critical", "Content", "Very thin content."))
            \o PushIf(wc >= 100 /\ wc < 300, Issue("warning", "Content", "Content is thin."))
            \o PushIf(wc >= 300 /\ wc < 600, Issue("notice", "Content", "Moderate content."))
        raw == IF wc < 100 THEN 10
               ELSE IF wc < 300 THEN 40
               ELSE IF wc < 600 THEN 65
               ELSE IF wc < 1000 THEN 80
               ELSE 100
        score == Max(0, raw)
    IN  HealthCategory("Content Depth", score, maxScore, Weighted(score, maxScore), issues)

\* the ratings taken off the score as well as reported
analyzePerformance_RatingsDeduct(vitals) ==
    LET maxScore == 13
        absent == ~Defined(vitals)
        lcpPoor == ~absent /\ vitals.lcpRating = "poor"
        clsPoor == ~absent /\ vitals.clsRating = "poor"
        issues ==
            IF absent
            THEN <<Issue("notice", "Performance", "Core Web Vitals data unavailable.")>>
            ELSE PushIf(lcpPoor, Issue("critical", "Performance", "LCP is poor."))
                 \o PushIf(vitals.lcpRating = "needs-improvement",
                           Issue("warning", "Performance", "LCP needs improvement."))
                 \o PushIf(clsPoor, Issue("critical", "Performance", "CLS is poor."))
                 \o PushIf(vitals.inpRating = "poor", Issue("warning", "Performance", "INP is poor."))
        raw == IF absent THEN 50
               ELSE vitals.performanceScore - (IF lcpPoor THEN 20 ELSE 0) - (IF clsPoor THEN 20 ELSE 0)
        score == Max(0, raw)
    IN  HealthCategory("Performance", score, maxScore, Weighted(score, maxScore), issues)

analyzePerformance(vitals) ==
    LET maxScore == 13
        absent == ~Defined(vitals)
        issues ==
            IF absent
            THEN <<Issue("notice", "Performance", "Core Web Vitals data unavailable.")>>
            ELSE PushIf(vitals.lcpRating = "poor", Issue("critical", "Performance", "LCP is poor."))
                 \o PushIf(vitals.lcpRating = "needs-improvement",
                           Issue("warning", "Performance", "LCP needs improvement."))
                 \o PushIf(vitals.clsRating = "poor", Issue("critical", "Performance", "CLS is poor."))
                 \o PushIf(vitals.inpRating = "poor", Issue("warning", "Performance", "INP is poor."))
        raw == IF absent THEN 50 ELSE vitals.performanceScore
        score == Max(0, raw)
    IN  HealthCategory("Performance", score, maxScore, Weighted(score, maxScore), issues)

\* three security headers still counted as too few (<= 3 instead of < 3)
analyzeSecurityBestPractices_ThreeTooFew(audit) ==
    LET maxScore == 8
        noCanonical == audit.meta.canonical = ""
        fewHeaders == Defined(audit.securityHeaders) /\ audit.securityHeaders.score <= 3
        issues ==
            PushIf(~audit.isHttps, Issue("critical", "Security", "Site is not using HTTPS."))
            \o PushIf(~audit.hasRobotsTxt, Issue("warning", "Security", "No robots.txt file found."))
            \o PushIf(~audit.hasSitemap, Issue("warning", "Security", "No sitemap.xml found."))
            \o PushIf(noCanonical, Issue("notice", "Security", "No canonical URL tag defined."))
            \o PushIf(fewHeaders, Issue("warning", "Security", "Only few security headers present."))
            \o PushIf(audit.hasCanonicalMismatch,
                      Issue("warning", "Security", "Canonical URL does not match the actual page URL."))
        raw == 100 - (IF ~audit.isHttps THEN 50 ELSE 0)
                   - (IF ~audit.hasRobotsTxt THEN 15 ELSE 0)
                   - (IF ~audit.hasSitemap THEN 15 ELSE 0)
                   - (IF noCanonical THEN 10 ELSE 0)
                   - (IF fewHeaders THEN 10 ELSE 0)
                   - (IF audit.hasCanonicalMismatch THEN 10 ELSE 0)
        score == Max(0, raw)
    IN  HealthCategory("Security & Best Practices", score, maxScore, Weighted(score, maxScore), issues)

analyzeSecurityBestPractices(audit) ==
    LET maxScore == 8
        noCanonical == audit.meta.canonical = ""
        fewHeaders == Defined(audit.securityHeaders) /\ audit.securityHeaders.score < 3
        issues ==
            PushIf(~audit.isHttps, Issue("critical", "Security", "Site is not using HTTPS."))
            \o PushIf(~audit.hasRobotsTxt, Issue("warning", "Security", "No robots.txt file found."))
            \o PushIf(~audit.hasSitemap, Issue("warning", "Security", "No sitemap.xml found."))
            \o PushIf(noCanonical, Issue("notice", "Security", "No canonical URL tag defined."))
            \o PushIf(fewHeaders, Issue("warning", "Security", "Only few security headers present."))
            \o PushIf(audit.hasCanonicalMismatch,
                      Issue("warning", "Security", "Canonical URL does not match the actual page URL."))
        raw == 100 - (IF ~audit.isHttps THEN 50 ELSE 0)
                   - (IF ~audit.hasRobotsTxt THEN 15 ELSE 0)
                   - (IF ~audit.hasSitemap THEN 15 ELSE 0)
                   - (IF noCanonical THEN 10 ELSE 0)
                   - (IF fewHeaders THEN 10 ELSE 0)
                   - (IF audit.hasCanonicalMismatch THEN 10 ELSE 0)
        score == Max(0, raw)
    IN  HealthCategory("Security & Best Practices", score, maxScore, Weighted(score, maxScore), issues)

(***************************************************************************)
(* Phase 2 category analyzers                                              *)
(***************************************************************************)
\* a single schema type accepted (types.length < 1 instead of < 2)
analyzeSchema_OneTypeEnough(audit) ==
    LET maxScore == 5
        sm == audit.schemaMarkup
        absent == ~Defined(sm)
        noData == ~absent /\ ~sm.hasJsonLd /\ ~sm.hasMicrodata
        checked == ~absent /\ ~noData
        fewTypes == checked /\ Len(sm.types) < 1
        microOnly == checked /\ ~sm.hasJsonLd /\ sm.hasMicrodata
        issues ==
            PushIf(absent, Issue("warning", "Schema", "Schema data not available."))
            \o PushIf(noData, Issue("warning", "Schema", "No structured data (JSON-LD or Microdata) found."))
            \o PushIf(fewTypes, Issue("notice", "Schema", "Only few schema type(s) detected."))
            \o PushIf(microOnly, Issue("notice", "Schema", "Using Microdata instead of JSON-LD."))
        raw == IF absent THEN 30
               ELSE IF noData THEN 20
               ELSE 100 - (IF fewTypes THEN 30 ELSE 0) - (IF microOnly THEN 15 ELSE 0)
        score == Max(0, raw)
    IN  HealthCategory("Schema & Structured Data", score, maxScore, Weighted(score, maxScore), issues)

analyzeSchema(audit) ==
    LET maxScore == 5
        sm == audit.schemaMarkup
        absent == ~Defined(sm)
        noData == ~absent /\ ~sm.hasJsonLd /\ ~sm.hasMicrodata
        checked == ~absent /\ ~noData
        fewTypes == checked /\ Len(sm.types) < 2
        microOnly == checked /\ ~sm.hasJsonLd /\ sm.hasMicrodata
        issues ==
            PushIf(absent, Issue("warning", "Schema", "Schema data not available."))
            \o PushIf(noData, Issue("warning", "Schema", "No structured data (JSON-LD or Microdata) found."))
            \o PushIf(fewTypes, Issue("notice", "Schema", "Only few schema type(s) detected."))
            \o PushIf(microOnly, Issue("notice", "Schema", "Using Microdata instead of JSON-LD."))
        raw == IF absent THEN 30
               ELSE IF noData THEN 20
               ELSE 100 - (IF fewTypes THEN 30 ELSE 0) - (IF microOnly THEN 15 ELSE 0)
        score == Max(0, raw)
    IN  HealthCategory("Schema & Structured Data", score, maxScore, Weighted(score, maxScore), issues)

\* no branch for an absent sub-record: the checks are skipped, the score stays 100
analyzeSocialMeta_NoAbsentBranch(audit) ==
    LET maxScore == 4
        social == audit.socialMeta
        absent == ~Defined(social)
        ogBad == ~absent /\ ~social.ogComplete
        twitterBad == ~absent /\ ~social.twitterComplete
        issues ==
            PushIf(ogBad, Issue("warning", "Social", "Incomplete Open Graph tags."))
            \o PushIf(twitterBad, Issue("notice", "Social", "Missing or incomplete Twitter Card tags."))
        raw == 100 - (IF ogBad THEN 40 ELSE 0) - (IF twitterBad THEN 30 ELSE 0)
        score == Max(0, raw)
    IN  HealthCategory("Social Media Readiness", score, maxScore, Weighted(score, maxScore), issues)

\* an absent sub-record reported with a warning, as analyzeSchema does
analyzeSocialMeta_WarnsWhenAbsent(audit) ==
    LET maxScore == 4
        social == audit.socialMeta
        absent == ~Defined(social)
        ogBad == ~absent /\ ~social.ogComplete
        twitterBad == ~absent /\ ~social.twitterComplete
        issues ==
            PushIf(absent, Issue("warning", "Social", "Social data not available."))
            \o PushIf(ogBad, Issue("warning", "Social", "Incomplete Open Graph tags."))
            \o PushIf(twitterBad, Issue("notice", "Social", "Missing or incomplete Twitter Card tags."))
        raw == IF absent THEN 30
               ELSE 100 - (IF ogBad THEN 40 ELSE 0) - (IF twitterBad THEN 30 ELSE 0)
        score == Max(0, raw)
    IN  HealthCategory("Social Media Readiness", score, maxScore, Weighted(score, maxScore), issues)

\* the two deductions exchanged: 30 for Open Graph, 40 for Twitter
analyzeSocialMeta_Exchanged(audit) ==
    LET maxScore == 4
        social == audit.socialMeta
        absent == ~Defined(social)
        ogBad == ~absent /\ ~social.ogComplete
        twitterBad == ~absent /\ ~social.twitterComplete
        issues ==
            PushIf(ogBad, Issue("warning", "Social", "Incomplete Open Graph tags."))
            \o PushIf(twitterBad, Issue("notice", "Social", "Missing or incomplete Twitter Card tags."))
        raw == IF absent THEN 30
               ELSE 100 - (IF ogBad THEN 30 ELSE 0) - (IF twitterBad THEN 40 ELSE 0)
        score == Max(0, raw)
    IN  HealthCategory("Social Media Readiness", score, maxScore, Weighted(score, maxScore), issues)

analyzeSocialMeta(audit) ==
    LET maxScore == 4
        social == audit.socialMeta
        absent == ~Defined(social)
        ogBad == ~absent /\ ~social.ogComplete
        twitterBad == ~absent /\ ~social.twitterComplete
        issues ==
            PushIf(ogBad, Issue("warning", "Social", "Incomplete Open Graph tags."))
            \o PushIf(twitterBad, Issue("notice", "Social", "Missing or incomplete Twitter Card tags."))
        raw == IF absent THEN 30
               ELSE 100 - (IF ogBad THEN 40 ELSE 0) - (IF twitterBad THEN 30 ELSE 0)
        score == Max(0, raw)
    IN  HealthCategory("Social Media Readiness", score, maxScore, Weighted(score, maxScore), issues)

\* the alt coverage limit taken as 81 instead of 80
analyzeAccessibility_Limit81(audit) ==
    LET maxScore == 5
        acc == audit.accessibility
        absent == ~Defined(acc)
        noViewport == ~absent /\ ~acc.hasViewport
        noLang == ~absent /\ ~acc.hasLangAttribute
        altChecked == ~absent /\ acc.totalImages > 0 /\ acc.imagesWithoutAlt > 0
        altCoverage == FMulInt(FDivInt(acc.totalImages - acc.imagesWithoutAlt, acc.totalImages), 100)
        altBad == altChecked /\ FLessInt(altCoverage, 81)
        unlabeled == ~absent /\ acc.formInputsWithoutLabel > 0
        issues ==
            PushIf(noViewport, Issue("critical", "Accessibility", "Missing viewport meta tag."))
            \o PushIf(noLang, Issue("warning", "Accessibility", "Missing lang attribute on <html> element."))
            \o PushIf(altBad, Issue("warning", "Accessibility", "Alt text coverage."))
            \o PushIf(unlabeled, Issue("notice", "Accessibility", "form input(s) without associated labels."))
        raw == IF absent THEN 40
               ELSE 100 - (IF noViewport THEN 40 ELSE 0) - (IF noLang THEN 25 ELSE 0)
                        - (IF altBad THEN 20 ELSE 0) - (IF unlabeled THEN 15 ELSE 0)
        score == Max(0, raw)
    IN  HealthCategory("Accessibility", score, maxScore, Weighted(score, maxScore), issues)

analyzeAccessibility(audit) ==
    LET maxScore == 5
        acc == audit.accessibility
        absent == ~Defined(acc)
        noViewport == ~absent /\ ~acc.hasViewport
        noLang == ~absent /\ ~acc.hasLangAttribute
        altChecked == ~absent /\ acc.totalImages > 0 /\ acc.imagesWithoutAlt > 0
        \* ((totalImages - imagesWithoutAlt) / totalImages) * 100
        altCoverage == FMulInt(FDivInt(acc.totalImages - acc.imagesWithoutAlt, acc.totalImages), 100)
        altBad == altChecked /\ FLessInt(altCoverage, 80)
        unlabeled == ~absent /\ acc.formInputsWithoutLabel > 0
        issues ==
            PushIf(noViewport, Issue("critical", "Accessibility", "Missing viewport meta tag."))
            \o PushIf(noLang, Issue("warning", "Accessibility", "Missing lang attribute on <html> element."))
            \o PushIf(altBad, Issue("warning", "Accessibility", "Alt text coverage."))
            \o PushIf(unlabeled, Issue("notice", "Accessibility", "form input(s) without associated labels."))
        raw == IF absent THEN 40
               ELSE 100 - (IF noViewport THEN 40 ELSE 0) - (IF noLang THEN 25 ELSE 0)
                        - (IF altBad THEN 20 ELSE 0) - (IF unlabeled THEN 15 ELSE 0)
        score == Max(0, raw)
    IN  HealthCategory("Accessibility", score, maxScore, Weighted(score, maxScore), issues)

\* keyword density checked from 100 words on (>= 100 instead of > 100)
analyzeContentQuality_From100(audit) ==
    LET maxScore == 4
        cq == audit.contentQuality
        absent == ~Defined(cq)
        veryHard == ~absent /\ cq.readabilityGrade > 14
        hard == ~absent /\ ~veryHard /\ cq.readabilityGrade > 12
        notInTitle == ~absent /\ ~cq.hasKeywordInTitle /\ cq.keywordCount > 0
        notInH1 == ~absent /\ ~cq.hasKeywordInH1 /\ cq.keywordCount > 0
        densityChecked == ~absent /\ audit.wordCount >= 100
        noKeyword == densityChecked /\ cq.keywordDensity = 0
        stuffed == densityChecked /\ ~noKeyword /\ cq.keywordDensity > 5
        issues ==
            PushIf(veryHard, Issue("warning", "Content Quality", "Reading level is very high."))
            \o PushIf(hard, Issue("notice", "Content Quality", "Reading level is moderately high."))
            \o PushIf(notInTitle, Issue("warning", "Content Quality", "Target keyword not found in the title tag."))
            \o PushIf(notInH1, Issue("notice", "Content Quality", "Target keyword not found in the H1 heading."))
            \o PushIf(noKeyword, Issue("warning", "Content Quality", "Target keyword not found in page content."))
            \o PushIf(stuffed, Issue("warning", "Content Quality", "Keyword density is high."))
        raw == IF absent THEN 50
               ELSE 100 - (IF veryHard THEN 25 ELSE 0) - (IF hard THEN 10 ELSE 0)
                        - (IF notInTitle THEN 25 ELSE 0) - (IF notInH1 THEN 20 ELSE 0)
                        - (IF noKeyword THEN 25 ELSE 0) - (IF stuffed THEN 20 ELSE 0)
        score == Max(0, raw)
    IN  HealthCategory("Content Quality", score, maxScore, Weighted(score, maxScore), issues)

analyzeContentQuality(audit) ==
    LET maxScore == 4
        cq == audit.contentQuality
        absent == ~Defined(cq)
        veryHard == ~absent /\ cq.readabilityGrade > 14
        hard == ~absent /\ ~veryHard /\ cq.readabilityGrade > 12
        notInTitle == ~absent /\ ~cq.hasKeywordInTitle /\ cq.keywordCount > 0
        notInH1 == ~absent /\ ~cq.hasKeywordInH1 /\ cq.keywordCount > 0
        densityChecked == ~absent /\ audit.wordCount > 100
        noKeyword == densityChecked /\ cq.keywordDensity = 0
        stuffed == densityChecked /\ ~noKeyword /\ cq.keywordDensity > 5
        issues ==
            PushIf(veryHard, Issue("warning", "Content Quality", "Reading level is very high."))
            \o PushIf(hard, Issue("notice", "Content Quality", "Reading level is moderately high."))
            \o PushIf(notInTitle, Issue("warning", "Content Quality", "Target keyword not found in the title tag."))
            \o PushIf(notInH1, Issue("notice", "Content Quality", "Target keyword not found in the H1 heading."))
            \o PushIf(noKeyword, Issue("warning", "Content Quality", "Target keyword not found in page content."))
            \o PushIf(stuffed, Issue("warning", "Content Quality", "Keyword density is high."))
        raw == IF absent THEN 50
               ELSE 100 - (IF veryHard THEN 25 ELSE 0) - (IF hard THEN 10 ELSE 0)
                        - (IF notInTitle THEN 25 ELSE 0) - (IF notInH1 THEN 20 ELSE 0)
                        - (IF noKeyword THEN 25 ELSE 0) - (IF stuffed THEN 20 ELSE 0)
        score == Max(0, raw)
    IN  HealthCategory("Content Quality", score, maxScore, Weighted(score, maxScore), issues)

(***************************************************************************)
(* Phase 3 category analyzers                                              *)
(***************************************************************************)
\* noindex as a 50-point deduction instead of zeroing the category
analyzeIndexability_NoindexHalves(audit) ==
    LET maxScore == 7
        idx == audit.indexability
        issues ==
            PushIf(idx.hasNoindex, Issue("critical", "Indexability", "Page has a noindex directive."))
            \o PushIf(idx.hasNofollow, Issue("warning", "Indexability", "Page has a nofollow directive."))
            \o PushIf(idx.canonicalStatus = "missing",
                      Issue("warning", "Indexability", "No canonical URL specified."))
            \o PushIf(idx.canonicalStatus = "mismatch",
                      Issue("critical", "Indexability", "Canonical URL mismatch."))
            \o PushIf(idx.hasRedirectChain, Issue("warning", "Indexability", "URL redirects detected."))
        raw == 100 - (IF idx.hasNoindex THEN 50 ELSE 0) - (IF idx.hasNofollow THEN 20 ELSE 0)
                   - (IF idx.canonicalStatus = "missing" THEN 15 ELSE 0)
                   - (IF idx.canonicalStatus = "mismatch" THEN 30 ELSE 0)
                   - (IF idx.hasRedirectChain THEN 10 ELSE 0)
        score == Max(0, raw)
    IN  IF ~Defined(idx)
        THEN HealthCategory("Indexability", 50, maxScore, FDivInt(maxScore, 2), <<>>)
        ELSE HealthCategory("Indexability", score, maxScore, WeightedRounded(score, maxScore), issues)

analyzeIndexability(audit) ==
    LET maxScore == 7
        idx == audit.indexability
        issues ==
            PushIf(idx.hasNoindex, Issue("critical", "Indexability", "Page has a noindex directive."))
            \o PushIf(idx.hasNofollow, Issue("warning", "Indexability", "Page has a nofollow directive."))
            \o PushIf(idx.canonicalStatus = "missing",
                      Issue("warning", "Indexability", "No canonical URL specified."))
            \o PushIf(idx.canonicalStatus = "mismatch",
                      Issue("critical", "Indexability", "Canonical URL mismatch."))
            \o PushIf(idx.hasRedirectChain, Issue("warning", "Indexability", "URL redirects detected."))
        raw == 100 - (IF idx.hasNoindex THEN 100 ELSE 0) - (IF idx.hasNofollow THEN 20 ELSE 0)
                   - (IF idx.canonicalStatus = "missing" THEN 15 ELSE 0)
                   - (IF idx.canonicalStatus = "mismatch" THEN 30 ELSE 0)
                   - (IF idx.hasRedirectChain THEN 10 ELSE 0)
        score == Max(0, raw)
    IN  IF ~Defined(idx)
        \* weightedScore: maxScore * 0.5, exact
        THEN HealthCategory("Indexability", 50, maxScore, FDivInt(maxScore, 2), <<>>)
        ELSE HealthCategory("Indexability", score, maxScore, WeightedRounded(score, maxScore), issues)

\* a missing Terms of Service page reported like the other missing pages
analyzeEEAT_TermsReported(audit) ==
    LET maxScore == 6
        eeat == audit.eeat
        Has(signal) == \E i \in 1..Len(eeat.signals) : eeat.signals[i] = signal
        issues ==
            PushIf(~eeat.hasAuthorInfo, Issue("warning", "E-E-A-T", "No author information detected."))
            \o PushIf(~eeat.hasAboutPage, Issue("warning", "E-E-A-T", "No link to an About page found."))
            \o PushIf(~eeat.hasContactPage, Issue("notice", "E-E-A-T", "No link to a Contact page found."))
            \o PushIf(~eeat.hasPrivacyPolicy, Issue("warning", "E-E-A-T", "No Privacy Policy linked."))
            \o PushIf(~eeat.hasTermsOfService, Issue("notice", "E-E-A-T", "No Terms of Service linked."))
        raw == (IF eeat.hasAuthorInfo THEN 20 ELSE 0) + (IF eeat.hasAboutPage THEN 15 ELSE 0)
               + (IF eeat.hasContactPage THEN 15 ELSE 0) + (IF eeat.hasPrivacyPolicy THEN 15 ELSE 0)
               + (IF eeat.hasTermsOfService THEN 10 ELSE 0)
               + (IF Has("Copyright notice") THEN 5 ELSE 0)
               + (IF Has("Physical address present") THEN 10 ELSE 0)
               + (IF Has("Social media profiles linked") THEN 10 ELSE 0)
        score == Min(100, raw)
    IN  IF ~Defined(eeat)
        THEN HealthCategory("E-E-A-T Signals", 0, maxScore, FromInt(0), <<>>)
        ELSE HealthCategory("E-E-A-T Signals", score, maxScore, WeightedRounded(score, maxScore), issues)

analyzeEEAT(audit) ==
    LET maxScore == 6
        eeat == audit.eeat
        Has(signal) == \E i \in 1..Len(eeat.signals) : eeat.signals[i] = signal
        issues ==
            PushIf(~eeat.hasAuthorInfo, Issue("warning", "E-E-A-T", "No author information detected."))
            \o PushIf(~eeat.hasAboutPage, Issue("warning", "E-E-A-T", "No link to an About page found."))
            \o PushIf(~eeat.hasContactPage, Issue("notice", "E-E-A-T", "No link to a Contact page found."))
            \o PushIf(~eeat.hasPrivacyPolicy, Issue("warning", "E-E-A-T", "No Privacy Policy linked."))
        raw == (IF eeat.hasAuthorInfo THEN 20 ELSE 0) + (IF eeat.hasAboutPage THEN 15 ELSE 0)
               + (IF eeat.hasContactPage THEN 15 ELSE 0) + (IF eeat.hasPrivacyPolicy THEN 15 ELSE 0)
               + (IF eeat.hasTermsOfService THEN 10 ELSE 0)
               + (IF Has("Copyright notice") THEN 5 ELSE 0)
               + (IF Has("Physical address present") THEN 10 ELSE 0)
               + (IF Has("Social media profiles linked") THEN 10 ELSE 0)
        score == Min(100, raw)
    IN  IF ~Defined(eeat)
        THEN HealthCategory("E-E-A-T Signals", 0, maxScore, FromInt(0), <<>>)
        ELSE HealthCategory("E-E-A-T Signals", score, maxScore, WeightedRounded(score, maxScore), issues)

\* three sections counted as too few (> 3 instead of >= 3)
analyzeContentComprehensiveness_ThreeTooFew(audit) ==
    LET maxScore == 5
        cc == audit.contentComprehensiveness
        fewSections == cc.contentSections <= 3
        fewTopics == Len(cc.topicCoverage) < 4
        shortRead == cc.estimatedReadTimeMin < 3
        issues ==
            PushIf(fewSections, Issue("warning", "Content Comprehensiveness", "Only few content section(s) found."))
            \o PushIf(fewTopics, Issue("notice", "Content Comprehensiveness", "Only few distinct topic(s) covered in headings."))
            \o PushIf(~cc.hasFAQ, Issue("notice", "Content Comprehensiveness", "No FAQ section detected."))
            \o PushIf(shortRead, Issue("notice", "Content Comprehensiveness", "Estimated read time is short."))
        raw == (IF cc.contentSections >= 5 THEN 25 ELSE IF cc.contentSections > 3 THEN 15 ELSE 5)
               + (IF Len(cc.topicCoverage) >= 8 THEN 20 ELSE IF Len(cc.topicCoverage) >= 4 THEN 10 ELSE 0)
               + (IF cc.hasFAQ THEN 15 ELSE 0)
               + (IF cc.hasTableOfContents THEN 10 ELSE 0)
               + (IF cc.entityCount >= 10 THEN 15 ELSE IF cc.entityCount >= 5 THEN 8 ELSE 0)
               + (IF cc.estimatedReadTimeMin >= 5 THEN 15 ELSE IF cc.estimatedReadTimeMin >= 3 THEN 8 ELSE 0)
        score == Min(100, raw)
    IN  IF ~Defined(cc)
        THEN HealthCategory("Content Compr.", 0, maxScore, FromInt(0), <<>>)
        ELSE HealthCategory("Content Compr.", score, maxScore, WeightedRounded(score, maxScore), issues)

analyzeContentComprehensiveness(audit) ==
    LET maxScore == 5
        cc == audit.contentComprehensiveness
        fewSections == cc.contentSections < 3
        fewTopics == Len(cc.topicCoverage) < 4
        shortRead == cc.estimatedReadTimeMin < 3
        issues ==
            PushIf(fewSections, Issue("warning", "Content Comprehensiveness", "Only few content section(s) found."))
            \o PushIf(fewTopics, Issue("notice", "Content Comprehensiveness", "Only few distinct topic(s) covered in headings."))
            \o PushIf(~cc.hasFAQ, Issue("notice", "Content Comprehensiveness", "No FAQ section detected."))
            \o PushIf(shortRead, Issue("notice", "Content Comprehensiveness", "Estimated read time is short."))
        raw == (IF cc.contentSections >= 5 THEN 25 ELSE IF cc.contentSections >= 3 THEN 15 ELSE 5)
               + (IF Len(cc.topicCoverage) >= 8 THEN 20 ELSE IF Len(cc.topicCoverage) >= 4 THEN 10 ELSE 0)
               + (IF cc.hasFAQ THEN 15 ELSE 0)
               + (IF cc.hasTableOfContents THEN 10 ELSE 0)
               + (IF cc.entityCount >= 10 THEN 15 ELSE IF cc.entityCount >= 5 THEN 8 ELSE 0)
               + (IF cc.estimatedReadTimeMin >= 5 THEN 15 ELSE IF cc.estimatedReadTimeMin >= 3 THEN 8 ELSE 0)
        score == Min(100, raw)
    IN  IF ~Defined(cc)
        THEN HealthCategory("Content Compr.", 0, maxScore, FromInt(0), <<>>)
        ELSE HealthCategory("Content Compr.", score, maxScore, WeightedRounded(score, maxScore), issues)

(***************************************************************************)
(* Aggregator                                                              *)
(***************************************************************************)
\* thresholds taken as exclusive
getGrade_Exclusive(score) ==
    IF score > 90 THEN "A"
    ELSE IF score > 80 THEN "B"
    ELSE IF score > 65 THEN "C"
    ELSE IF score > 50 THEN "D"
    ELSE "F"

getGrade(score) ==
    IF score >= 90 THEN "A"
    ELSE IF score >= 80 THEN "B"
    ELSE IF score >= 65 THEN "C"
    ELSE IF score >= 50 THEN "D"
    ELSE "F"

severityOrder == [critical |-> 0, warning |-> 1, notice |-> 2]

\* a sort that is not stable: equal severities come out in reverse order
Reverse(arr) == [i \in 1..Len(arr) |-> arr[Len(arr) + 1 - i]]
SortBySeverity_Unstable(allIssues) ==
    LET Rank0(i) == severityOrder[i.severity] = 0
        Rank1(i) == severityOrder[i.severity] = 1
        Rank2(i) == severityOrder[i.severity] = 2
    IN  Reverse(SelectSeq(allIssues, Rank0)) \o Reverse(SelectSeq(allIssues, Rank1))
        \o Reverse(SelectSeq(allIssues, Rank2))

\* allIssues.sort((a, b) => severityOrder[a.severity] - severityOrder[b.severity]):
\* Array.prototype.sort is stable, so the sorted array is the issues of rank 0
\* in their original order, then those of rank 1, then those of rank 2
SortBySeverity(allIssues) ==
    LET Rank0(i) == severityOrder[i.severity] = 0
        Rank1(i) == severityOrder[i.severity] = 1
        Rank2(i) == severityOrder[i.severity] = 2
    IN  SelectSeq(allIssues, Rank0) \o SelectSeq(allIssues, Rank1) \o SelectSeq(allIssues, Rank2)

\* for (const cat of analyzers) allIssues.push(...cat.issues), up to category k
RECURSIVE CollectIssues(_, _)
CollectIssues(categories, k) ==
    IF k = 0 THEN <<>>
    ELSE CollectIssues(categories, k - 1) \o categories[k].issues

\* the reduce adding up c.score instead of c.weightedScore
RECURSIVE Reduce_SumsScores(_, _)
Reduce_SumsScores(categories, k) ==
    IF k = 0 THEN <<FromInt(0)>>
    ELSE LET sums == Reduce_SumsScores(categories, k - 1)
         IN  Append(sums, FAdd(sums[k], FromInt(categories[k].score)))

\* categories.reduce((sum, c) => sum + c.weightedScore, 0): the values the
\* accumulator takes, from the initial 0 to the one after category k
RECURSIVE Reduce(_, _)
Reduce(categories, k) ==
    IF k = 0 THEN <<FromInt(0)>>
    ELSE LET sums == Reduce(categories, k - 1)
         IN  Append(sums, FAdd(sums[k], categories[k].weightedScore))

SumWeighted(categories, k) == Reduce(categories, k)[k + 1]

\* the weights of the Phase 2 doc comments (Schema 7 pts) instead of the code's
Analyzers_StaleWeights(audit, vitals) ==
    << analyzeTitleTag(audit),
       analyzeMetaDescription(audit),
       analyzeHeadings(audit),
       analyzeImages(audit),
       analyzeLinks(audit),
       analyzeContent(audit),
       analyzePerformance(vitals),
       analyzeSecurityBestPractices(audit),
       [analyzeSchema(audit) EXCEPT !.maxScore = 7],
       analyzeSocialMeta(audit),
       analyzeAccessibility(audit),
       analyzeContentQuality(audit),
       analyzeIndexability(audit),
       analyzeEEAT(audit),
       analyzeContentComprehensiveness(audit) >>

\* const analyzers = [analyzeTitleTag(audit), ...]
Analyzers(audit, vitals) ==
    << analyzeTitleTag(audit),
       analyzeMetaDescription(audit),
       analyzeHeadings(audit),
       analyzeImages(audit),
       analyzeLinks(audit),
       analyzeContent(audit),
       analyzePerformance(vitals),
       analyzeSecurityBestPractices(audit),
       analyzeSchema(audit),
       analyzeSocialMeta(audit),
       analyzeAccessibility(audit),
       analyzeContentQuality(audit),
       analyzeIndexability(audit),
       analyzeEEAT(audit),
       analyzeContentComprehensiveness(audit) >>

analyzeHealth(audit, vitals) ==
    LET categories == Analyzers(audit, vitals)
        allIssues == CollectIssues(categories, Len(categories))
        overall == MathRound(SumWeighted(categories, Len(categories)))
        grade == getGrade(overall)
    IN  [overall |-> overall, grade |-> grade, categories |-> categories,
         issues |-> SortBySeverity(allIssues)]

(***************************************************************************)
(* Inputs: bounded sets of page-audit records and vitals records           *)
(***************************************************************************)
MaxImages == 4
MaxBroken == 5
MaxCalls == 2

Ratings == {"good", "needs-improvement", "poor"}

\* an array of n entries (only its length is read)
Items(n) == [i \in 1..n |-> i]

\* titleLength is title.length and descriptionLength is description.length
MetaInfos ==
    {m \in [title : {"", "title"}, titleLength : {0, 29, 30, 60, 61},
            description : {"", "description"}, descriptionLength : {0, 119, 120, 160, 161},
            canonical : {"", "https://example.com/"}] :
        /\ (m.title = "") = (m.titleLength = 0)
        /\ (m.description = "") = (m.descriptionLength = 0)}

HeadingLists ==
    { <<>>,
      <<[tag |-> "h1", count |-> 1]>>,
      <<[tag |-> "h1", count |-> 2]>>,
      <<[tag |-> "h2", count |-> 3]>>,
      <<[tag |-> "h3", count |-> 1]>>,
      <<[tag |-> "h1", count |-> 1], [tag |-> "h2", count |-> 3]>>,
      <<[tag |-> "h1", count |-> 2], [tag |-> "h2", count |-> 1]>>,
      <<[tag |-> "h1", count |-> 1], [tag |-> "h2", count |-> 5], [tag |-> "h3", count |-> 2]>> }

\* n images: the first a lack alt text, the first k are in an older or an
\* unrecognised format, the first z lack lazy loading
OldFormats == <<"jpg", "unknown", "png", "gif">>
NewFormats == <<"webp", "", "avif", "svg">>
ImageList(n, a, k, z) ==
    [i \in 1..n |->
        [hasAlt |-> i > a,
         format |-> IF i <= k THEN OldFormats[((i - 1) % 4) + 1] ELSE NewFormats[((i - 1) % 4) + 1],
         hasLazyLoading |-> i > z]]
ImageLists ==
    UNION {{ImageList(n, c[1], c[2], c[3]) : c \in (0..n) \X (0..n) \X (0..n)} : n \in 0..MaxImages}

InternalLinkLists == {Items(n) : n \in 0..3}
BrokenLinkLists == {undefined} \cup {[list |-> Items(n)] : n \in 0..MaxBroken}

WordCounts == {0, 50, 99, 100, 101, 299, 300, 599, 600, 999, 1000, 1200}

SecurityHeaderSets == {undefined, [score |-> 2], [score |-> 3], [score |-> 6]}

SchemaMarkups ==
    {undefined} \cup
    [hasJsonLd : BOOLEAN, hasMicrodata : BOOLEAN,
     types : {<<>>, <<"Organization">>, <<"Organization", "WebPage">>}]

SocialMetas == {undefined} \cup [ogComplete : BOOLEAN, twitterComplete : BOOLEAN]

\* <<totalImages, imagesWithoutAlt>>; 4 of 5 and 8 of 10 are coverage 80%
ImageCounts == {<<0, 0>>, <<3, 3>>, <<5, 0>>, <<5, 1>>, <<5, 2>>, <<10, 2>>, <<10, 3>>}
AccessibilityInfos ==
    {undefined} \cup
    {[hasViewport |-> v, hasLangAttribute |-> l, totalImages |-> c[1],
      imagesWithoutAlt |-> c[2], formInputsWithoutLabel |-> f] :
        v \in BOOLEAN, l \in BOOLEAN, c \in ImageCounts, f \in {0, 2}}

ContentQualities ==
    {undefined} \cup
    [readabilityGrade : {12, 13, 14, 15}, keywordCount : {0, 4},
     keywordDensity : {0, 5, 6}, hasKeywordInTitle : BOOLEAN, hasKeywordInH1 : BOOLEAN]

IndexabilityInfos ==
    {undefined} \cup
    [hasNoindex : BOOLEAN, hasNofollow : BOOLEAN,
     canonicalStatus : {"match", "mismatch", "missing"}, hasRedirectChain : BOOLEAN]

SignalLists ==
    {SelectSeq(<<"Copyright notice", "HTTPS enabled", "Physical address present",
                 "Social media profiles linked">>, LAMBDA x : x \in S) :
        S \in SUBSET {"Copyright notice", "HTTPS enabled", "Physical address present",
                      "Social media profiles linked"}}
EEATSignals ==
    {undefined} \cup
    [hasAuthorInfo : BOOLEAN, hasAboutPage : BOOLEAN, hasContactPage : BOOLEAN,
     hasPrivacyPolicy : BOOLEAN, hasTermsOfService : BOOLEAN, signals : SignalLists]

ContentComprehensivenesses ==
    {undefined} \cup
    [contentSections : {2, 3, 5}, topicCoverage : {Items(3), Items(4), Items(8)},
     hasFAQ : BOOLEAN, hasTableOfContents : BOOLEAN,
     entityCount : {4, 5, 10}, estimatedReadTimeMin : {2, 3, 5}]

PerformanceScores == {-5, 120} \cup (0..100)
CoreWebVitals ==
    {undefined}
    \cup [performanceScore : PerformanceScores, lcpRating : {"good"},
          clsRating : {"good"}, inpRating : {"good"}]
    \cup [performanceScore : {95}, lcpRating : Ratings, clsRating : Ratings, inpRating : Ratings]

\* a page with nothing to report: every category scores 100
GoodAudit ==
    [meta |-> [title |-> "title", titleLength |-> 30, description |-> "description",
               descriptionLength |-> 120, canonical |-> "https://example.com/"],
     headings |-> <<[tag |-> "h1", count |-> 1], [tag |-> "h2", count |-> 3]>>,
     images |-> ImageList(2, 0, 0, 0),
     internalLinks |-> Items(3),
     brokenLinks |-> [list |-> <<>>],
     wordCount |-> 1200,
     isHttps |-> TRUE, hasRobotsTxt |-> TRUE, hasSitemap |-> TRUE,
     hasCanonicalMismatch |-> FALSE,
     securityHeaders |-> [score |-> 6],
     schemaMarkup |-> [hasJsonLd |-> TRUE, hasMicrodata |-> FALSE,
                       types |-> <<"Organization", "WebPage">>],
     socialMeta |-> [ogComplete |-> TRUE, twitterComplete |-> TRUE],
     accessibility |-> [hasViewport |-> TRUE, hasLangAttribute |-> TRUE, totalImages |-> 5,
                        imagesWithoutAlt |-> 0, formInputsWithoutLabel |-> 0],
     contentQuality |-> [readabilityGrade |-> 12, keywordCount |-> 4, keywordDensity |-> 5,
                         hasKeywordInTitle |-> TRUE, hasKeywordInH1 |-> TRUE],
     indexability |-> [hasNoindex |-> FALSE, hasNofollow |-> FALSE,
                       canonicalStatus |-> "match", hasRedirectChain |-> FALSE],
     eeat |-> [hasAuthorInfo |-> TRUE, hasAboutPage |-> TRUE, hasContactPage |-> TRUE,
               hasPrivacyPolicy |-> TRUE, hasTermsOfService |-> TRUE,
               signals |-> <<"Copyright notice", "Physical address present",
                             "Social media profiles linked">>],
     contentComprehensiveness |->
         [contentSections |-> 5, topicCoverage |-> Items(8), hasFAQ |-> TRUE,
          hasTableOfContents |-> TRUE, entityCount |-> 10, estimatedReadTimeMin |-> 5]]

\* a page with no title, no description, no headings, 50 words, no images,
\* no links, plain HTTP, no robots.txt, no sitemap and no optional sub-record
BareAudit ==
    [meta |-> [title |-> "", titleLength |-> 0, description |-> "",
               descriptionLength |-> 0, canonical |-> ""],
     headings |-> <<>>,
     images |-> <<>>,
     internalLinks |-> <<>>,
     brokenLinks |-> undefined,
     wordCount |-> 50,
     isHttps |-> FALSE, hasRobotsTxt |-> FALSE, hasSitemap |-> FALSE,
     hasCanonicalMismatch |-> FALSE,
     securityHeaders |-> undefined,
     schemaMarkup |-> undefined,
     socialMeta |-> undefined,
     accessibility |-> undefined,
     contentQuality |-> undefined,
     indexability |-> undefined,
     eeat |-> undefined,
     contentComprehensiveness |-> undefined]

\* a bare page whose phase 3 categories score 70, 15 and 38: with a
\* performance score of 30 its weighted sum is 30.5
RoundingAudit ==
    [BareAudit EXCEPT
        !.indexability = [hasNoindex |-> FALSE, hasNofollow |-> FALSE,
                          canonicalStatus |-> "mismatch", hasRedirectChain |-> FALSE],
        !.eeat = [hasAuthorInfo |-> FALSE, hasAboutPage |-> TRUE, hasContactPage |-> FALSE,
                  hasPrivacyPolicy |-> FALSE, hasTermsOfService |-> FALSE, signals |-> <<>>],
        !.contentComprehensiveness =
            [contentSections |-> 2, topicCoverage |-> Items(4), hasFAQ |-> TRUE,
             hasTableOfContents |-> FALSE, entityCount |-> 5, estimatedReadTimeMin |-> 2]]

\* a page on which every analyzer finds all it can find
WorstAudit ==
    [meta |-> [title |-> "", titleLength |-> 0, description |-> "",
               descriptionLength |-> 0, canonical |-> ""],
     headings |-> <<>>,
     images |-> ImageList(4, 4, 4, 4),
     internalLinks |-> <<>>,
     brokenLinks |-> [list |-> Items(4)],
     wordCount |-> 50,
     isHttps |-> FALSE, hasRobotsTxt |-> FALSE, hasSitemap |-> FALSE,
     hasCanonicalMismatch |-> TRUE,
     securityHeaders |-> [score |-> 2],
     schemaMarkup |-> [hasJsonLd |-> FALSE, hasMicrodata |-> FALSE, types |-> <<>>],
     socialMeta |-> [ogComplete |-> FALSE, twitterComplete |-> FALSE],
     accessibility |-> [hasViewport |-> FALSE, hasLangAttribute |-> FALSE, totalImages |-> 3,
                        imagesWithoutAlt |-> 3, formInputsWithoutLabel |-> 2],
     contentQuality |-> [readabilityGrade |-> 15, keywordCount |-> 4, keywordDensity |-> 6,
                         hasKeywordInTitle |-> FALSE, hasKeywordInH1 |-> FALSE],
     indexability |-> [hasNoindex |-> TRUE, hasNofollow |-> TRUE,
                       canonicalStatus |-> "mismatch", hasRedirectChain |-> TRUE],
     eeat |-> undefined,
     contentComprehensiveness |-> undefined]

\* pages in between, so that the overall score sweeps the whole scale
MixedAudits ==
    { [GoodAudit EXCEPT !.indexability = undefined, !.eeat = undefined,
                        !.wordCount = 300, !.schemaMarkup = undefined],
      [GoodAudit EXCEPT !.meta = BareAudit.meta, !.headings = <<>>, !.eeat = undefined,
                        !.wordCount = 100, !.contentComprehensiveness = undefined,
                        !.isHttps = FALSE],
      [BareAudit EXCEPT !.meta = GoodAudit.meta, !.wordCount = 600,
                        !.internalLinks = Items(3), !.isHttps = TRUE,
                        !.images = ImageList(3, 1, 0, 0)],
      \* weighted sums that end in .5 with full marks for performance: 89.5, 97.5
      [GoodAudit EXCEPT !.meta.title = "", !.hasRobotsTxt = FALSE,
                        !.socialMeta.ogComplete = FALSE,
                        !.indexability.hasRedirectChain = TRUE],
      [GoodAudit EXCEPT !.meta.titleLength = 61, !.contentQuality.readabilityGrade = 13,
                        !.indexability.hasRedirectChain = TRUE],
      RoundingAudit, WorstAudit,
      \* the same page with 101 words and the lowest content quality score
      [WorstAudit EXCEPT !.wordCount = 101, !.contentQuality.keywordDensity = 0] }

\* every record that differs from base in one group of fields
Variations(base) ==
    {[base EXCEPT !.meta = x] : x \in MetaInfos}
    \cup {[base EXCEPT !.headings = x] : x \in HeadingLists}
    \cup {[base EXCEPT !.images = x] : x \in ImageLists}
    \cup {[base EXCEPT !.internalLinks = x[1], !.brokenLinks = x[2]] :
            x \in InternalLinkLists \X BrokenLinkLists}
    \cup {[base EXCEPT !.wordCount = x] : x \in WordCounts}
    \cup {[base EXCEPT !.contentQuality = x[1], !.wordCount = x[2]] :
            x \in ContentQualities \X {100, 101}}
    \cup {[base EXCEPT !.isHttps = x[1], !.hasRobotsTxt = x[2], !.hasSitemap = x[3],
                       !.hasCanonicalMismatch = x[4], !.securityHeaders = x[5],
                       !.meta.canonical = x[6]] :
            x \in BOOLEAN \X BOOLEAN \X BOOLEAN \X BOOLEAN \X SecurityHeaderSets
                  \X {"", "https://example.com/"}}
    \cup {[base EXCEPT !.schemaMarkup = x] : x \in SchemaMarkups}
    \cup {[base EXCEPT !.socialMeta = x] : x \in SocialMetas}
    \cup {[base EXCEPT !.accessibility = x] : x \in AccessibilityInfos}
    \cup {[base EXCEPT !.indexability = x] : x \in IndexabilityInfos}
    \cup {[base EXCEPT !.eeat = x] : x \in EEATSignals}
    \cup {[base EXCEPT !.contentComprehensiveness = x] : x \in ContentComprehensivenesses}

\* base with every combination of its optional sub-records taken away
OptionalFields ==
    {"schemaMarkup", "securityHeaders", "accessibility", "contentQuality", "socialMeta",
     "indexability", "eeat", "contentComprehensiveness", "brokenLinks"}
Absences(base) ==
    {[f \in DOMAIN base |-> IF f \in gone THEN undefined ELSE base[f]] :
        gone \in SUBSET OptionalFields}

SomeVitals ==
    {undefined, [performanceScore |-> 95, lcpRating |-> "good", clsRating |-> "good",
                 inpRating |-> "good"]}

Inputs ==
    ((Variations(GoodAudit) \cup Variations(BareAudit) \cup Absences(GoodAudit)) \X SomeVitals)
    \cup (({GoodAudit, BareAudit} \cup MixedAudits) \X CoreWebVitals)

(***************************************************************************)
(* The engine as a state machine: a caller holds a page-audit record and   *)
(* a vitals record and invokes analyzeHealth on them, any number of times. *)
(* job, frame and console belong to the job manager further down: here no  *)
(* job exists.                                                             *)
(***************************************************************************)
VARIABLES audit, vitals, result, previous, calls, job, frame, console
vars == <<audit, vitals, result, previous, calls, job, frame, console>>

Init ==
    /\ \E input \in Inputs : audit = input[1] /\ vitals = input[2]
    /\ result = undefined
    /\ previous = undefined
    /\ calls = 0
    /\ job = undefined
    /\ frame = undefined
    /\ console = <<>>

\* allIssues kept at module level: the issues of earlier invocations stay in it
AnalyzeHealth_KeepsIssues ==
    /\ calls < MaxCalls
    /\ result' = [analyzeHealth(audit, vitals) EXCEPT
                    !.issues = SortBySeverity((IF Defined(result) THEN result.issues ELSE <<>>) \o @)]
    /\ previous' = result
    /\ calls' = calls + 1
    /\ UNCHANGED <<audit, vitals, job, frame, console>>

\* audit.headings reversed in place before the search for the h1 entry
AnalyzeHealth_ReversesHeadings ==
    /\ calls < MaxCalls
    /\ result' = analyzeHealth(audit, vitals)
    /\ previous' = result
    /\ calls' = calls + 1
    /\ audit' = [audit EXCEPT !.headings = Reverse(@)]
    /\ UNCHANGED <<vitals, job, frame, console>>

\* const healthScore = analyzeHealth(pageAudit, vitals)
AnalyzeHealth ==
    /\ calls < MaxCalls
    /\ result' = analyzeHealth(audit, vitals)
    /\ previous' = result
    /\ calls' = calls + 1
    /\ UNCHANGED <<audit, vitals, job, frame, console>>

Next == AnalyzeHealth

Spec == Init /\ [][Next]_vars

(***************************************************************************)
(* The job manager: createAuditJob creates one job and starts the pipeline *)
(* processAudit, which runs from one awaited call to the next.  Each       *)
(* action is one such run: the code between two awaits executes without    *)
(* interruption.  job is the AuditJob object (optional properties are      *)
(* fields the record may lack), frame holds the position and the locals of *)
(* processAudit, audit, vitals and result are its pageAudit, vitals and    *)
(* healthScore, console is what console.warn has printed.  Time stamps are *)
(* left out.  The catch handler attached by createAuditJob never runs:     *)
(* processAudit catches everything itself and its catch block cannot       *)
(* throw.                                                                  *)
(***************************************************************************)
STEP_LABELS ==
    <<"Crawling target URL", "Analyzing page health", "Fetching Core Web Vitals",
      "Searching keywords", "Crawling competitors", "Comparing metrics",
      "Generating recommendations">>

createSteps == [i \in 1..Len(STEP_LABELS) |-> [label |-> STEP_LABELS[i], status |-> "pending"]]

\* markStep(job, index, status), index counted from 0: nothing changes when
\* the job has no such step
markStep(j, index, status) ==
    [j EXCEPT !.steps = [i \in DOMAIN @ |-> IF i = index + 1
                                            THEN [@[i] EXCEPT !.status = status]
                                            ELSE @[i]]]

\* job.status = status
SetStatus(j, status) == [j EXCEPT !.status = status]

\* assignment to an optional property of the job
SetField(j, field, value) == (field :> value) @@ j

\* a URL text is its parts in order: <<scheme, rest>> or <<rest>>
Schemes == {"http://", "https://"}
\* names that themselves begin with the letters http
HttpNames == {"httpbin.org"}
JobUrls == {<<"https://", "example.com">>, <<"example.com">>, <<"httpbin.org">>}

\* job.url.startsWith('http') ? job.url : `https://${job.url}`
WithScheme(url) ==
    IF url[1] \in Schemes \/ url[1] \in HttpNames THEN url ELSE <<"https://">> \o url

\* new URL(text) throws a TypeError for a text without a scheme
ParsesAsUrl(url) == Len(url) = 2 /\ url[1] \in Schemes
hostname(url) == url[2]

TypeError == [name |-> "TypeError", message |-> "Invalid URL"]
CrawlError == [name |-> "CrawlError", message |-> "Failed to crawl: fetch failed"]

\* error instanceof Error ? error.message : 'An unexpected error occurred'
ErrorMessage(error) ==
    IF "message" \in DOMAIN error THEN error.message ELSE "An unexpected error occurred"

\* the catch block without the loop over the steps
Catch_KeepsRunning(j, error) ==
    SetField(SetStatus(j, "failed"), "error", ErrorMessage(error))

\* the catch block of processAudit
Catch(j, error) ==
    LET failed == SetField(SetStatus(j, "failed"), "error", ErrorMessage(error))
    IN  [failed EXCEPT !.steps =
            [i \in DOMAIN @ |-> IF @[i].status = "running"
                                THEN [@[i] EXCEPT !.status = "failed"]
                                ELSE @[i]]]

\* serpResults without the user's domain, the first `limit` of them
identifyCompetitors(serpResults, userDomain, limit) ==
    LET others == SelectSeq(serpResults, LAMBDA r : r.domain # userDomain)
    IN  [i \in 1..Min(limit, Len(others)) |->
            [url |-> others[i].url, domain |-> others[i].domain, position |-> others[i].position]]

SerpResult(domain, position) ==
    [url |-> <<"https://", domain>>, domain |-> domain, position |-> position]

\* what fetchSerpResults may resolve to
KeywordAnalyses ==
    {[topResults |-> r] :
        r \in {<<>>,
               <<SerpResult("example.com", 1)>>,
               <<SerpResult("example.com", 1), SerpResult("rival-a.com", 2)>>,
               <<SerpResult("rival-a.com", 1), SerpResult("example.com", 2),
                 SerpResult("rival-b.com", 3), SerpResult("rival-c.com", 4),
                 SerpResult("rival-d.com", 5)>>}}

\* what crawlPage may resolve to: every sub-record is present
CrawledAudits ==
    {GoodAudit,
     [GoodAudit EXCEPT !.meta.title = "", !.meta.titleLength = 0, !.wordCount = 50,
                       !.headings = <<>>, !.isHttps = FALSE],
     [WorstAudit EXCEPT !.eeat = GoodAudit.eeat,
                        !.contentComprehensiveness = GoodAudit.contentComprehensiveness]}

\* what fetchCoreWebVitals may resolve to
FetchedVitals ==
    {[performanceScore |-> 95, lcpRating |-> "good", clsRating |-> "good", inpRating |-> "good"],
     [performanceScore |-> 30, lcpRating |-> "poor", clsRating |-> "needs-improvement",
      inpRating |-> "poor"]}

At(position) == Defined(frame) /\ frame.pc = position

\* steps 5 (end), 6 and 7 (start), once the competitors have been audited
AfterCompetitors(j) ==
    markStep(SetStatus(markStep(markStep(markStep(j, 4, "completed"), 5, "running"),
                                5, "completed"),
                       "generating-ai"),
             6, "running")

\* createAuditJob: the job is stored and processAudit runs up to its first await
CreateAuditJob ==
    /\ ~Defined(job)
    /\ \E url \in JobUrls :
          job' = markStep(SetStatus([url |-> url, status |-> "queued", steps |-> createSteps],
                                    "crawling"),
                          0, "running")
    /\ frame' = [pc |-> "crawlPage", keywordAnalysis |-> undefined, todo |-> <<>>,
                 auditedCompetitors |-> <<>>]
    /\ UNCHANGED <<audit, vitals, result, previous, calls, console>>

\* step 2 left 'running' until the health score exists: its end is not marked
CrawlPageReturns_Step2StaysRunning ==
    /\ At("crawlPage")
    /\ \E pageAudit \in CrawledAudits : audit' = pageAudit
    /\ job' = markStep(SetStatus(markStep(SetStatus(markStep(job, 0, "completed"),
                                                    "analyzing"),
                                          1, "running"),
                                 "fetching-vitals"),
                       2, "running")
    /\ frame' = [frame EXCEPT !.pc = "fetchCoreWebVitals"]
    /\ UNCHANGED <<vitals, result, previous, calls, console>>

\* crawlPage resolves: steps 1 (end), 2 and 3 (start)
CrawlPageReturns ==
    /\ At("crawlPage")
    /\ \E pageAudit \in CrawledAudits : audit' = pageAudit
    /\ job' = markStep(SetStatus(markStep(markStep(SetStatus(markStep(job, 0, "completed"),
                                                             "analyzing"),
                                                   1, "running"),
                                          1, "completed"),
                                 "fetching-vitals"),
                       2, "running")
    /\ frame' = [frame EXCEPT !.pc = "fetchCoreWebVitals"]
    /\ UNCHANGED <<vitals, result, previous, calls, console>>

\* crawlPage rejects with a CrawlError: the catch block
CrawlPageThrows ==
    /\ At("crawlPage")
    /\ job' = Catch(job, CrawlError)
    /\ frame' = [frame EXCEPT !.pc = "returned"]
    /\ UNCHANGED <<audit, vitals, result, previous, calls, console>>

\* fetchCoreWebVitals resolves to vitals or rejects, which is caught and
\* leaves vitals undefined; then step 3 (end), analyzeHealth(pageAudit, vitals),
\* step 4 (start)
FetchCoreWebVitalsSettles ==
    /\ At("fetchCoreWebVitals")
    /\ \E outcome \in FetchedVitals \cup {undefined} :
          /\ vitals' = outcome
          /\ result' = analyzeHealth(audit, outcome)
          /\ console' = IF Defined(outcome) THEN console
                        ELSE Append(console, "[Audit] Vitals fetch failed:")
    /\ previous' = result
    /\ calls' = calls + 1
    /\ job' = markStep(SetStatus(markStep(job, 2, "completed"), "fetching-serp"), 3, "running")
    /\ frame' = [frame EXCEPT !.pc = "fetchSerpResults"]
    /\ UNCHANGED audit

\* step 4 (end), step 5 (start): the competitors are identified, which parses
\* job.url when there is a keyword analysis; then either the first
\* auditCompetitor is awaited or, with no competitor, steps 5 (end), 6 and 7 (start)
AfterSerp(keywordAnalysis) ==
    LET j == markStep(SetStatus(markStep(job, 3, "completed"), "crawling-competitors"),
                      4, "running")
        url == WithScheme(job.url)
        throws == Defined(keywordAnalysis) /\ ~ParsesAsUrl(url)
        competitorsList ==
            IF Defined(keywordAnalysis)
            THEN identifyCompetitors(keywordAnalysis.topResults, hostname(url), 3)
            ELSE <<>>
        todo == SubSeq(competitorsList, 1, Min(2, Len(competitorsList)))
    IN  /\ job' = IF throws THEN Catch(j, TypeError)
                  ELSE IF todo = <<>> THEN AfterCompetitors(j)
                  ELSE j
        /\ frame' = [frame EXCEPT
                        !.keywordAnalysis = keywordAnalysis,
                        !.todo = IF throws THEN <<>> ELSE todo,
                        !.pc = IF throws THEN "returned"
                               ELSE IF todo = <<>> THEN "generateAIRecommendations"
                               ELSE "auditCompetitor"]
        /\ UNCHANGED <<audit, vitals, result, previous, calls>>

FetchSerpResultsReturns ==
    /\ At("fetchSerpResults")
    /\ \E keywordAnalysis \in KeywordAnalyses : AfterSerp(keywordAnalysis)
    /\ UNCHANGED console

FetchSerpResultsThrows ==
    /\ At("fetchSerpResults")
    /\ AfterSerp(undefined)
    /\ console' = Append(console, "[Audit] SERP fetch failed:")

\* one turn of the loop over competitorsList.slice(0, 2) ends with `pushed`
\* appended; after the last turn steps 5 (end), 6 and 7 (start)
AfterCompetitor(pushed) ==
    LET rest == Tail(frame.todo)
    IN  /\ frame' = [frame EXCEPT
                        !.auditedCompetitors = Append(@, pushed),
                        !.todo = rest,
                        !.pc = IF rest = <<>> THEN "generateAIRecommendations"
                               ELSE "auditCompetitor"]
        /\ job' = IF rest = <<>> THEN AfterCompetitors(job) ELSE job
        /\ UNCHANGED <<audit, vitals, result, previous, calls>>

\* auditCompetitor resolves, with the competitor's audit or without it
AuditCompetitorReturns ==
    /\ At("auditCompetitor")
    /\ \E audited \in BOOLEAN :
          AfterCompetitor(IF audited THEN SetField(Head(frame.todo), "audit", GoodAudit)
                          ELSE Head(frame.todo))
    /\ UNCHANGED console

AuditCompetitorThrows ==
    /\ At("auditCompetitor")
    /\ AfterCompetitor(Head(frame.todo))
    /\ console' = Append(console, "[Audit] Competitor crawl failed")

\* step 7 (end), the report, job.status = 'completed'
AfterRecommendations(aiRecommendations) ==
    LET audited == frame.auditedCompetitors
        report == [pageAudit |-> audit, healthScore |-> result, vitals |-> vitals,
                   keywordAnalysis |-> frame.keywordAnalysis,
                   competitors |-> audited,
                   gapAnalyses |-> SelectSeq(audited, LAMBDA c : "audit" \in DOMAIN c),
                   aiRecommendations |-> aiRecommendations]
    IN  /\ job' = SetStatus(SetField(markStep(job, 6, "completed"), "report", report),
                            "completed")
        /\ frame' = [frame EXCEPT !.pc = "returned"]
        /\ UNCHANGED <<audit, vitals, result, previous, calls>>

GenerateAIRecommendationsReturns ==
    /\ At("generateAIRecommendations")
    /\ \E aiRecommendations \in {<<>>, <<"recommendation">>} :
          AfterRecommendations(aiRecommendations)
    /\ UNCHANGED console

GenerateAIRecommendationsThrows ==
    /\ At("generateAIRecommendations")
    /\ AfterRecommendations(<<>>)
    /\ console' = Append(console, "[Audit] AI recommendations failed:")

JobInit ==
    /\ audit = undefined
    /\ vitals = undefined
    /\ result = undefined
    /\ previous = undefined
    /\ calls = 0
    /\ job = undefined
    /\ frame = undefined
    /\ console = <<>>

JobNext ==
    \/ CreateAuditJob
    \/ CrawlPageReturns
    \/ CrawlPageThrows
    \/ FetchCoreWebVitalsSettles
    \/ FetchSerpResultsReturns
    \/ FetchSerpResultsThrows
    \/ AuditCompetitorReturns
    \/ AuditCompetitorThrows
    \/ GenerateAIRecommendationsReturns
    \/ GenerateAIRecommendationsThrows

\* every awaited call returns or throws in the end: createAuditJob starts the
\* pipeline at once, and no call stays pending for ever (for
\* fetchCoreWebVitals this is said of the position: its only step leaves it)
JobFairness ==
    /\ WF_vars(CreateAuditJob)
    /\ WF_vars(CrawlPageReturns \/ CrawlPageThrows)
    /\ []<>~At("fetchCoreWebVitals")
    /\ WF_vars(FetchSerpResultsReturns \/ FetchSerpResultsThrows)
    /\ WF_vars(AuditCompetitorReturns \/ AuditCompetitorThrows)
    /\ WF_vars(GenerateAIRecommendationsReturns \/ GenerateAIRecommendationsThrows)

JobSpec == JobInit /\ [][JobNext]_vars /\ JobFairness

(***************************************************************************)
(* Properties                                                              *)
(***************************************************************************)
Returned == calls > 0
Category(i) == result.categories[i]

RECURSIVE SumMaxScore(_, _)
SumMaxScore(categories, k) ==
    IF k = 0 THEN 0 ELSE SumMaxScore(categories, k - 1) + categories[k].maxScore

\* the sum over the categories of score * maxScore: 100 times the weighted sum
RECURSIVE SumScoreTimesWeight(_, _)
SumScoreTimesWeight(categories, k) ==
    IF k = 0 THEN 0
    ELSE SumScoreTimesWeight(categories, k - 1) + categories[k].score * categories[k].maxScore

CategoryWeights == <<7, 6, 7, 6, 7, 10, 13, 8, 5, 4, 5, 4, 7, 6, 5>>

PerformanceScoreInRange == ~Defined(vitals) \/ vitals.performanceScore \in 0..100

\* C2: with vitals absent or a performanceScore in 0..100, every category
\* score and the overall score lie in 0..100
C2_ScoresInRange ==
    (Returned /\ PerformanceScoreInRange) =>
        /\ \A i \in 1..Len(result.categories) :
              Category(i).score >= 0 /\ Category(i).score <= 100
        /\ result.overall >= 0 /\ result.overall <= 100

\* C2 witness: all six Security deductions apply (110 points), and the
\* category score is clamped to 0
C2_Witness ==
    /\ Returned /\ PerformanceScoreInRange
    /\ Len(Category(8).issues) = 6
    /\ Category(8).score = 0

\* C3 as claimed: overall = floor((sum of score * maxScore + 50) / 100)
C3_OverallIsRoundedExactSum ==
    Returned =>
        result.overall = (SumScoreTimesWeight(result.categories, Len(result.categories)) + 50) \div 100

GradeRank == [A |-> 4, B |-> 3, C |-> 2, D |-> 1, F |-> 0]
GradeBands(score) ==
    CASE score >= 90 -> "A"
      [] score >= 80 /\ score <= 89 -> "B"
      [] score >= 65 /\ score <= 79 -> "C"
      [] score >= 50 /\ score <= 64 -> "D"
      [] score <= 49 -> "F"

\* C4: the grade is a function of overall alone, A from 90, B for 80..89,
\* C for 65..79, D for 50..64, F up to 49, with the stated boundary values,
\* and a higher overall never yields a worse grade
C4_GradeBands ==
    /\ Returned => result.grade = GradeBands(result.overall)
    /\ \A s \in 0..100 : getGrade(s) = GradeBands(s)
    /\ getGrade(89) = "B" /\ getGrade(90) = "A" /\ getGrade(79) = "C" /\ getGrade(80) = "B"
    /\ getGrade(64) = "D" /\ getGrade(65) = "C" /\ getGrade(49) = "F" /\ getGrade(50) = "D"
    /\ \A s \in 0..99 : GradeRank[getGrade(s)] <= GradeRank[getGrade(s + 1)]

\* C4 witness: a result on a grade boundary, overall 90 with grade A
C4_Witness == Returned /\ result.overall = 90 /\ result.grade = "A"

\* the position issue i of the flattened list has after a stable sort
SortedPosition(list, i) ==
    1 + Cardinality({j \in 1..Len(list) :
            \/ severityOrder[list[j].severity] < severityOrder[list[i].severity]
            \/ severityOrder[list[j].severity] = severityOrder[list[i].severity] /\ j < i})

EmittedIssues == CollectIssues(result.categories, Len(result.categories))

\* C5: result.issues is the stable sort by severity rank of the categories'
\* issue lists concatenated in category order: every emitted issue goes to
\* the position that counts the issues of lower rank and the earlier issues
\* of equal rank, so criticals precede warnings precede notices and issues
\* of one severity keep their order
C5_IssuesStablySorted ==
    Returned =>
        /\ Len(result.issues) = Len(EmittedIssues)
        /\ \A i \in 1..Len(EmittedIssues) :
              result.issues[SortedPosition(EmittedIssues, i)] = EmittedIssues[i]
        /\ \A i, j \in 1..Len(result.issues) :
              i < j => severityOrder[result.issues[i].severity]
                         <= severityOrder[result.issues[j].severity]

\* C5 witness: the emitted issues start critical, warning, critical, and the
\* result starts with the two criticals
C5_Witness ==
    /\ Returned
    /\ Len(EmittedIssues) >= 3
    /\ EmittedIssues[1].severity = "critical"
    /\ EmittedIssues[2].severity = "warning"
    /\ EmittedIssues[3].severity = "critical"
    /\ result.issues[1] = EmittedIssues[1]
    /\ result.issues[2] = EmittedIssues[3]

IssueOrder ==
    << "Page is missing a title tag.",
       "Title tag is too short.",
       "Title tag is too long and may be truncated.",
       "Page is missing a meta description.",
       "Meta description is short.",
       "Meta description may be truncated.",
       "Page is missing an H1 heading.",
       "Multiple H1 tags found.",
       "No H2 headings found.",
       "No images found on the page.",
       "images missing alt text.",
       "images not using next-gen formats (WebP/AVIF).",
       "images without lazy loading.",
       "No internal links found.",
       "broken link(s) detected.",
       "Very few internal links on the page.",
       "Very thin content.",
       "Content is thin.",
       "Moderate content.",
       "Core Web Vitals data unavailable.",
       "LCP is poor.",
       "LCP needs improvement.",
       "CLS is poor.",
       "INP is poor.",
       "Site is not using HTTPS.",
       "No robots.txt file found.",
       "No sitemap.xml found.",
       "No canonical URL tag defined.",
       "Only few security headers present.",
       "Canonical URL does not match the actual page URL.",
       "Schema data not available.",
       "No structured data (JSON-LD or Microdata) found.",
       "Only few schema type(s) detected.",
       "Using Microdata instead of JSON-LD.",
       "Incomplete Open Graph tags.",
       "Missing or incomplete Twitter Card tags.",
       "Missing viewport meta tag.",
       "Missing lang attribute on <html> element.",
       "Alt text coverage.",
       "form input(s) without associated labels.",
       "Reading level is very high.",
       "Reading level is moderately high.",
       "Target keyword not found in the title tag.",
       "Target keyword not found in the H1 heading.",
       "Target keyword not found in page content.",
       "Keyword density is high.",
       "Page has a noindex directive.",
       "Page has a nofollow directive.",
       "No canonical URL specified.",
       "Canonical URL mismatch.",
       "URL redirects detected.",
       "No author information detected.",
       "No link to an About page found.",
       "No link to a Contact page found.",
       "No Privacy Policy linked.",
       "Only few content section(s) found.",
       "Only few distinct topic(s) covered in headings.",
       "No FAQ section detected.",
       "Estimated read time is short." >>
EmissionRank(issue) == CHOOSE k \in 1..Len(IssueOrder) : IssueOrder[k] = issue.message

\* the issues of every category are in the order its analyzer emits them
EmissionOrderKept ==
    Returned =>
        \A c \in 1..Len(result.categories) :
            \A i, j \in 1..Len(Category(c).issues) :
                i < j => EmissionRank(Category(c).issues[i]) < EmissionRank(Category(c).issues[j])

CategoryFields == {"name", "score", "maxScore", "weightedScore", "issues"}

\* C8: whatever optional inputs are absent, the result has 15 well-formed
\* categories; a category whose sub-record is absent has its fixed score
\* (Performance 50, Schema 30, Social 30, Accessibility 40, Content Quality
\* 50, Indexability 50, E-E-A-T 0, Content Comprehensiveness 0), and absent
\* securityHeaders or brokenLinks cost nothing in Security or Link Hygiene
C8_AbsentInputsHandled ==
    Returned =>
        /\ Len(result.categories) = 15
        /\ \A i \in 1..15 :
              /\ DOMAIN Category(i) = CategoryFields
              /\ Category(i).score \in Int
              /\ Category(i).name # ""
        /\ ~Defined(vitals) => Category(7).score = 50
        /\ ~Defined(audit.schemaMarkup) => Category(9).score = 30
        /\ ~Defined(audit.socialMeta) => Category(10).score = 30
        /\ ~Defined(audit.accessibility) => Category(11).score = 40
        /\ ~Defined(audit.contentQuality) => Category(12).score = 50
        /\ ~Defined(audit.indexability) => Category(13).score = 50
        /\ ~Defined(audit.eeat) => Category(14).score = 0
        /\ ~Defined(audit.contentComprehensiveness) => Category(15).score = 0
        /\ ~Defined(audit.securityHeaders) =>
              LET left == 100 - (IF audit.isHttps THEN 0 ELSE 50)
                              - (IF audit.hasRobotsTxt THEN 0 ELSE 15)
                              - (IF audit.hasSitemap THEN 0 ELSE 15)
                              - (IF audit.meta.canonical = "" THEN 10 ELSE 0)
                              - (IF audit.hasCanonicalMismatch THEN 10 ELSE 0)
              IN  Category(8).score = (IF left < 0 THEN 0 ELSE left)
        /\ ~Defined(audit.brokenLinks) =>
              Category(5).score = 100 - (IF Len(audit.internalLinks) = 0 THEN 40 ELSE 0)
                                      - (IF Len(audit.internalLinks) \in {1, 2} THEN 15 ELSE 0)

\* C8 witness: an otherwise complete page with every optional sub-record
\* and the vitals absent has been analyzed
C8_Witness ==
    /\ Returned
    /\ ~Defined(vitals)
    /\ \A f \in OptionalFields : ~Defined(audit[f])
    /\ audit.meta.title # "" /\ audit.isHttps
    /\ Category(7).score = 50 /\ Category(13).score = 50 /\ Category(14).score = 0

NoIssueWhenAbsent ==
    /\ ~Defined(audit.accessibility) => Category(11).issues = <<>>
    /\ ~Defined(audit.contentQuality) => Category(12).issues = <<>>
    /\ ~Defined(audit.contentComprehensiveness) => Category(15).issues = <<>>
    /\ ~Defined(audit.eeat) => Category(14).issues = <<>>

\* C9 as claimed: an absent sub-record makes Schema and Social each emit a
\* warning, and Accessibility, Content Quality, Content Comprehensiveness
\* and E-E-A-T emit nothing
C9_SchemaAndSocialWarn ==
    Returned =>
        /\ ~Defined(audit.schemaMarkup) =>
              \E i \in 1..Len(Category(9).issues) : Category(9).issues[i].severity = "warning"
        /\ ~Defined(audit.socialMeta) =>
              \E i \in 1..Len(Category(10).issues) : Category(10).issues[i].severity = "warning"
        /\ NoIssueWhenAbsent

\* C9 amended: an absent sub-record makes Schema emit one warning, and
\* Social, Accessibility, Content Quality, Content Comprehensiveness and
\* E-E-A-T emit nothing
C9_OnlySchemaWarns ==
    Returned =>
        /\ ~Defined(audit.schemaMarkup) =>
              /\ Len(Category(9).issues) = 1
              /\ Category(9).issues[1].severity = "warning"
        /\ ~Defined(audit.socialMeta) => Category(10).issues = <<>>
        /\ NoIssueWhenAbsent

\* C9 witness: a page without schema and social sub-records has been
\* analyzed: Schema holds a warning, Social holds no issue
C9_Witness ==
    /\ Returned
    /\ ~Defined(audit.schemaMarkup) /\ ~Defined(audit.socialMeta)
    /\ Len(Category(9).issues) = 1
    /\ Category(10).score = 30 /\ Category(10).issues = <<>>

\* C10 as claimed: 100 * weightedScore = score * maxScore for every category,
\* that is, weightedScore is the number score * maxScore / 100 (as a double:
\* the double nearest to it)
C10_WeightedIsScoreTimesWeight ==
    Returned =>
        \A i \in 1..Len(result.categories) :
            Category(i).score >= 0 =>
                Category(i).weightedScore = FDivInt(Category(i).score * Category(i).maxScore, 100)

\* the severities of a list of issues, in order
Severities(issues) == [i \in 1..Len(issues) |-> issues[i].severity]
\* <<x>> when cond holds, else the empty list
When(cond, x) == IF cond THEN <<x>> ELSE <<>>
\* 1 when cond holds, else 0
Ind(cond) == IF cond THEN 1 ELSE 0

\* C11: Performance scores 50 with one notice when vitals are absent; with
\* vitals its score is performanceScore (0 if negative, no upper clamp)
\* whatever the ratings, which only add issues: LCP poor a critical, LCP
\* needs-improvement a warning, CLS poor a critical, INP poor a warning,
\* nothing else; performanceScore 95 with good ratings gives 95, 12.35 and
\* no issue
C11_Performance ==
    Returned =>
        /\ ~Defined(vitals) =>
              /\ Category(7).score = 50
              /\ Severities(Category(7).issues) = <<"notice">>
        /\ Defined(vitals) =>
              /\ Category(7).score =
                    (IF vitals.performanceScore < 0 THEN 0 ELSE vitals.performanceScore)
              /\ Severities(Category(7).issues) =
                    When(vitals.lcpRating = "poor", "critical")
                    \o When(vitals.lcpRating = "needs-improvement", "warning")
                    \o When(vitals.clsRating = "poor", "critical")
                    \o When(vitals.inpRating = "poor", "warning")
              /\ (vitals.performanceScore = 95 /\ Category(7).issues = <<>>) =>
                    Category(7).weightedScore = FDivInt(1235, 100)

\* C11 witness: performanceScore 95 with LCP and CLS poor has been analyzed:
\* the score is still 95 and the two criticals are reported
C11_Witness ==
    /\ Returned /\ Defined(vitals)
    /\ vitals.performanceScore = 95
    /\ vitals.lcpRating = "poor" /\ vitals.clsRating = "poor"
    /\ vitals.inpRating = "needs-improvement"
    /\ Category(7).score = 95
    /\ Len(Category(7).issues) = 2

\* whether the signal list of the E-E-A-T sub-record holds the signal
HasSignal(signal) == \E i \in 1..Len(audit.eeat.signals) : audit.eeat.signals[i] = signal

\* C12: with the E-E-A-T sub-record present the score is the capped sum of
\* the points of the signals found, the issues are one per missing author
\* (warning), about page (warning), contact page (notice) and privacy
\* policy (warning), in that order, none for terms or bonus signals, and
\* weightedScore is score * 6 / 100
C12_EEAT ==
    (Returned /\ Defined(audit.eeat)) =>
        LET e == audit.eeat
            sum == 20 * Ind(e.hasAuthorInfo) + 15 * Ind(e.hasAboutPage)
                   + 15 * Ind(e.hasContactPage) + 15 * Ind(e.hasPrivacyPolicy)
                   + 10 * Ind(e.hasTermsOfService)
                   + 5 * Ind(HasSignal("Copyright notice"))
                   + 10 * Ind(HasSignal("Physical address present"))
                   + 10 * Ind(HasSignal("Social media profiles linked"))
        IN  /\ Category(14).score = (IF sum > 100 THEN 100 ELSE sum)
            /\ Category(14).issues =
                  When(~e.hasAuthorInfo, Issue("warning", "E-E-A-T", "No author information detected."))
                  \o When(~e.hasAboutPage, Issue("warning", "E-E-A-T", "No link to an About page found."))
                  \o When(~e.hasContactPage, Issue("notice", "E-E-A-T", "No link to a Contact page found."))
                  \o When(~e.hasPrivacyPolicy, Issue("warning", "E-E-A-T", "No Privacy Policy linked."))
            /\ Category(14).weightedScore = FDivInt(Category(14).score * 6, 100)

\* C12 witness: author, about and privacy present, contact and terms not, no
\* signals: score 50, the contact-page notice alone, weightedScore 3
C12_Witness ==
    /\ Returned /\ Defined(audit.eeat)
    /\ audit.eeat.hasAuthorInfo /\ audit.eeat.hasAboutPage /\ audit.eeat.hasPrivacyPolicy
    /\ ~audit.eeat.hasContactPage /\ ~audit.eeat.hasTermsOfService
    /\ audit.eeat.signals = <<>>
    /\ Category(14).score = 50
    /\ Severities(Category(14).issues) = <<"notice">>
    /\ Category(14).weightedScore = FromInt(3)

\* the number of issues of a list with the given severity
CountSeverity(issues, severity) ==
    Cardinality({i \in 1..Len(issues) : issues[i].severity = severity})
\* whether a list of issues holds one with the given message
HasMessage(issues, message) == \E i \in 1..Len(issues) : issues[i].message = message

\* C13: with the indexability sub-record present the score is 100 less 100
\* for noindex, 20 for nofollow, 15 for a missing canonical, 30 for a
\* canonical mismatch and 10 for a redirect, not below 0, with one issue per
\* deduction (critical, warning, warning, critical, warning); missing and
\* mismatch never both appear; noindex makes score and weightedScore 0; and
\* noindex with a mismatch gives score 0 with two criticals
C13_Indexability ==
    (Returned /\ Defined(audit.indexability)) =>
        LET x == audit.indexability
            left == 100 - 100 * Ind(x.hasNoindex) - 20 * Ind(x.hasNofollow)
                        - 15 * Ind(x.canonicalStatus = "missing")
                        - 30 * Ind(x.canonicalStatus = "mismatch")
                        - 10 * Ind(x.hasRedirectChain)
        IN  /\ Category(13).score = (IF left < 0 THEN 0 ELSE left)
            /\ Severities(Category(13).issues) =
                  When(x.hasNoindex, "critical") \o When(x.hasNofollow, "warning")
                  \o When(x.canonicalStatus = "missing", "warning")
                  \o When(x.canonicalStatus = "mismatch", "critical")
                  \o When(x.hasRedirectChain, "warning")
            /\ ~(/\ HasMessage(Category(13).issues, "No canonical URL specified.")
                 /\ HasMessage(Category(13).issues, "Canonical URL mismatch."))
            /\ x.hasNoindex =>
                  /\ Category(13).score = 0
                  /\ Category(13).weightedScore = FromInt(0)
            /\ (x.hasNoindex /\ x.canonicalStatus = "mismatch") =>
                  CountSeverity(Category(13).issues, "critical") = 2

\* C13 witness: noindex with a canonical mismatch and no other flag: score 0
\* and the two criticals
C13_Witness ==
    /\ Returned /\ Defined(audit.indexability)
    /\ audit.indexability.hasNoindex /\ audit.indexability.canonicalStatus = "mismatch"
    /\ ~audit.indexability.hasNofollow /\ ~audit.indexability.hasRedirectChain
    /\ Category(13).score = 0
    /\ Severities(Category(13).issues) = <<"critical", "critical">>

\* whether a category has the given score and issues of the given severities
ScoresWith(category, score, severities) ==
    category.score = score /\ Severities(category.issues) = severities

\* C14: Title Tag scores 0 with one critical when the title is empty,
\* whatever titleLength is; otherwise 60 with one warning below 30
\* characters, 80 with one notice above 60, 100 with no issue from 30 to 60;
\* it never has more than one issue
C14_TitleTag ==
    /\ Returned =>
          LET m == audit.meta
          IN  /\ m.title = "" => ScoresWith(Category(1), 0, <<"critical">>)
              /\ (m.title # "" /\ m.titleLength < 30) => ScoresWith(Category(1), 60, <<"warning">>)
              /\ (m.title # "" /\ m.titleLength > 60) => ScoresWith(Category(1), 80, <<"notice">>)
              /\ (m.title # "" /\ m.titleLength \in 30..60) => ScoresWith(Category(1), 100, <<>>)
              /\ Len(Category(1).issues) <= 1
    /\ \A n \in {0, 1, 29, 30, 45, 60, 61, 200} :
          ScoresWith(analyzeTitleTag([meta |-> [title |-> "", titleLength |-> n]]),
                     0, <<"critical">>)

\* C14 witness: a page with a title of 61 characters has been analyzed
C14_Witness ==
    /\ Returned
    /\ audit.meta.title # "" /\ audit.meta.titleLength = 61
    /\ ScoresWith(Category(1), 80, <<"notice">>)

\* C15: Meta Description scores 0 with one critical when the description is
\* empty, whatever descriptionLength is; otherwise 70 with one warning below
\* 120 characters, 85 with one notice above 160, 100 with no issue from 120
\* to 160
C15_MetaDescription ==
    /\ Returned =>
          LET m == audit.meta
          IN  /\ m.description = "" => ScoresWith(Category(2), 0, <<"critical">>)
              /\ (m.description # "" /\ m.descriptionLength < 120) =>
                    ScoresWith(Category(2), 70, <<"warning">>)
              /\ (m.description # "" /\ m.descriptionLength > 160) =>
                    ScoresWith(Category(2), 85, <<"notice">>)
              /\ (m.description # "" /\ m.descriptionLength \in 120..160) =>
                    ScoresWith(Category(2), 100, <<>>)
    /\ \A n \in {0, 1, 119, 120, 140, 160, 161, 500} :
          ScoresWith(analyzeMetaDescription([meta |-> [description |-> "", descriptionLength |-> n]]),
                     0, <<"critical">>)

\* C15 witness: a page with a description of 161 characters has been analyzed
C15_Witness ==
    /\ Returned
    /\ audit.meta.description # "" /\ audit.meta.descriptionLength = 161
    /\ ScoresWith(Category(2), 85, <<"notice">>)

\* the positions of the entries of a heading inventory with the given tag
TagEntries(headings, tag) == {i \in 1..Len(headings) : headings[i].tag = tag}
HeadingScores == {100, 80, 70, 50, 40, 20}

\* C16: Heading Structure scores 100 less 60 (critical) without an h1 entry,
\* else less 30 (warning) when the h1 entry counts more than one, and less
\* 20 (notice) without an h2 entry; the two H1 deductions never both apply;
\* the scores that occur are exactly 100, 80, 70, 50, 40 and 20; neither H1
\* nor H2 gives 20
C16_Headings ==
    /\ Returned =>
          LET h1s == TagEntries(audit.headings, "h1")
              noH1 == h1s = {}
              multiH1 == ~noH1 /\ audit.headings[CHOOSE i \in h1s : \A j \in h1s : i <= j].count > 1
              noH2 == TagEntries(audit.headings, "h2") = {}
          IN  /\ Category(3).score = 100 - (IF noH1 THEN 60 ELSE IF multiH1 THEN 30 ELSE 0)
                                         - 20 * Ind(noH2)
              /\ Severities(Category(3).issues) =
                    When(noH1, "critical") \o When(multiH1, "warning") \o When(noH2, "notice")
              /\ CountSeverity(Category(3).issues, "critical")
                    + CountSeverity(Category(3).issues, "warning") <= 1
              /\ Category(3).score \in HeadingScores
              /\ (noH1 /\ noH2) => Category(3).score = 20
    /\ {analyzeHeadings([headings |-> h]).score : h \in HeadingLists} = HeadingScores

\* C16 witness: a page with two H1 tags and no H2 has been analyzed: 50, a
\* warning and a notice
C16_Witness ==
    /\ Returned
    /\ audit.headings = <<[tag |-> "h1", count |-> 2]>>
    /\ ScoresWith(Category(3), 50, <<"warning", "notice">>)

\* the number of entries of a list that are in the given set of positions
CountWhere(list, Test(_)) == Cardinality({i \in 1..Len(list) : Test(list[i])})

\* C17: no images gives 80 with one notice; n > 0 images of which m lack
\* alt text lose round(60 * m / n) when m > 0, with a critical exactly when
\* 2 * m > n and a warning otherwise (also at exactly one half); 15 with a
\* notice when the images whose format is given (any non-empty string, the
\* crawler's 'unknown' included) and is not webp, avif or svg are more than
\* n / 2; 10 with a notice when more than 3 images lack lazy loading; with
\* images the score is never below 15
C17_Images ==
    Returned =>
        LET n == Len(audit.images)
            m == CountWhere(audit.images, LAMBDA img : ~img.hasAlt)
            old == CountWhere(audit.images,
                              LAMBDA img : img.format \notin {"", "webp", "avif", "svg"})
            lazy == CountWhere(audit.images, LAMBDA img : ~img.hasLazyLoading)
        IN  /\ n = 0 => ScoresWith(Category(4), 80, <<"notice">>)
            /\ n > 0 =>
                  /\ Category(4).score =
                        100 - (IF m > 0 THEN (120 * m + n) \div (2 * n) ELSE 0)
                            - 15 * Ind(2 * old > n) - 10 * Ind(lazy > 3)
                  /\ Severities(Category(4).issues) =
                        When(m > 0, IF 2 * m > n THEN "critical" ELSE "warning")
                        \o When(2 * old > n, "notice") \o When(lazy > 3, "notice")
                  /\ Category(4).score >= 15

\* C17 witness: four images, two without alt text, three in older or
\* unrecognised formats, none lazily loaded: 100 - 30 - 15 - 10 = 45 with a
\* warning and two notices
C17_Witness ==
    /\ Returned
    /\ Len(audit.images) = 4
    /\ CountWhere(audit.images, LAMBDA img : ~img.hasAlt) = 2
    /\ CountWhere(audit.images, LAMBDA img : img.format = "unknown") = 1
    /\ ScoresWith(Category(4), 45, <<"warning", "notice", "notice">>)

\* C18: Link Hygiene scores 100 less 40 (warning) without internal links,
\* less min(60, 15 * b) (critical) for b > 0 listed broken links, less 15
\* (notice) with 1 or 2 internal links; the two internal-link deductions
\* never both apply, the broken-link deduction is 60 from 4 broken links
\* on, and the lowest score that occurs is exactly 0
C18_Links ==
    /\ Returned =>
          LET internal == Len(audit.internalLinks)
              b == IF Defined(audit.brokenLinks) THEN Len(audit.brokenLinks.list) ELSE 0
              brokenCost == IF 15 * b > 60 THEN 60 ELSE 15 * b
          IN  /\ Category(5).score =
                    100 - 40 * Ind(internal = 0) - brokenCost - 15 * Ind(internal \in {1, 2})
              /\ Severities(Category(5).issues) =
                    When(internal = 0, "warning") \o When(b > 0, "critical")
                    \o When(internal \in {1, 2}, "notice")
              /\ ~(/\ HasMessage(Category(5).issues, "No internal links found.")
                   /\ HasMessage(Category(5).issues, "Very few internal links on the page."))
              /\ b >= 4 => Category(5).score = 100 - 40 * Ind(internal = 0) - 60
                                                   - 15 * Ind(internal \in {1, 2})
              /\ Category(5).score >= 0
    /\ \E b \in BrokenLinkLists :
          analyzeLinks([internalLinks |-> <<>>, brokenLinks |-> b]).score = 0

\* C18 witness: a snapshot with no internal links and 5 broken links listed
\* has been analyzed: score 0, a warning and a critical
C18_Witness ==
    /\ Returned
    /\ audit.internalLinks = <<>>
    /\ Defined(audit.brokenLinks) /\ Len(audit.brokenLinks.list) = 5
    /\ ScoresWith(Category(5), 0, <<"warning", "critical">>)

\* C19: Content Depth takes its score from wordCount alone: 10 with a
\* critical below 100 words, 40 with a warning from 100, 65 with a notice
\* from 300, 80 with no issue from 600, 100 with no issue from 1000; the
\* score never decreases as wordCount grows (from each word count tried to
\* the next one) and there is at most one issue
C19_Content ==
    /\ Returned =>
          LET wc == audit.wordCount
          IN  /\ wc < 100 => ScoresWith(Category(6), 10, <<"critical">>)
              /\ (100 <= wc /\ wc < 300) => ScoresWith(Category(6), 40, <<"warning">>)
              /\ (300 <= wc /\ wc < 600) => ScoresWith(Category(6), 65, <<"notice">>)
              /\ (600 <= wc /\ wc < 1000) => ScoresWith(Category(6), 80, <<>>)
              /\ wc >= 1000 => ScoresWith(Category(6), 100, <<>>)
              /\ Len(Category(6).issues) <= 1
    /\ \A a, b \in WordCounts :
          (a < b /\ ~\E c \in WordCounts : a < c /\ c < b) =>
              analyzeContent([wordCount |-> a]).score <= analyzeContent([wordCount |-> b]).score

\* C19 witness: a page of exactly 300 words has been analyzed: 65 and a notice
C19_Witness ==
    /\ Returned
    /\ audit.wordCount = 300
    /\ ScoresWith(Category(6), 65, <<"notice">>)

\* C20: Security & Best Practices scores 100 less 50 without HTTPS
\* (critical), 15 without robots.txt (warning), 15 without a sitemap
\* (warning), 10 without a canonical in meta (notice), 10 when
\* securityHeaders is present with a score below 3 (warning), 10 on a
\* canonical mismatch (warning), not below 0, with one issue per deduction;
\* all six together give 0; a non-HTTPS page without robots.txt, sitemap,
\* canonical and securityHeaders record scores 10
C20_Security ==
    Returned =>
        LET noHttps == ~audit.isHttps
            noRobots == ~audit.hasRobotsTxt
            noSitemap == ~audit.hasSitemap
            noCanonical == audit.meta.canonical = ""
            fewHeaders == IF Defined(audit.securityHeaders)
                          THEN audit.securityHeaders.score < 3 ELSE FALSE
            mismatch == audit.hasCanonicalMismatch
            left == 100 - 50 * Ind(noHttps) - 15 * Ind(noRobots) - 15 * Ind(noSitemap)
                        - 10 * Ind(noCanonical) - 10 * Ind(fewHeaders) - 10 * Ind(mismatch)
        IN  /\ Category(8).score = (IF left < 0 THEN 0 ELSE left)
            /\ Severities(Category(8).issues) =
                  When(noHttps, "critical") \o When(noRobots, "warning")
                  \o When(noSitemap, "warning") \o When(noCanonical, "notice")
                  \o When(fewHeaders, "warning") \o When(mismatch, "warning")
            /\ (noHttps /\ noRobots /\ noSitemap /\ noCanonical /\ fewHeaders /\ mismatch) =>
                  left = -10 /\ Category(8).score = 0
            /\ (/\ noHttps /\ noRobots /\ noSitemap /\ noCanonical
                /\ ~Defined(audit.securityHeaders) /\ ~mismatch) =>
                  Category(8).score = 10

\* C20 witness: a page on which all six conditions hold has been analyzed:
\* score 0 and six issues
C20_Witness ==
    /\ Returned
    /\ ~audit.isHttps /\ ~audit.hasRobotsTxt /\ ~audit.hasSitemap
    /\ audit.meta.canonical = "" /\ audit.hasCanonicalMismatch
    /\ Defined(audit.securityHeaders) /\ audit.securityHeaders.score = 2
    /\ Category(8).score = 0
    /\ Len(Category(8).issues) = 6

SchemaScores == {100, 85, 70, 55, 30, 20}

\* C21: Schema scores 30 with one warning when the sub-record is absent, 20
\* with one warning when it has neither JSON-LD nor microdata, otherwise
\* 100 less 30 for fewer than 2 schema types and less 15 for microdata
\* without JSON-LD, each with a notice; the scores that occur are exactly
\* 100, 85, 70, 55, 30 and 20
C21_Schema ==
    /\ Returned =>
          LET sm == audit.schemaMarkup
          IN  /\ ~Defined(sm) => ScoresWith(Category(9), 30, <<"warning">>)
              /\ Defined(sm) =>
                    IF ~sm.hasJsonLd /\ ~sm.hasMicrodata
                    THEN ScoresWith(Category(9), 20, <<"warning">>)
                    ELSE ScoresWith(Category(9),
                                    100 - 30 * Ind(Len(sm.types) < 2)
                                        - 15 * Ind(sm.hasMicrodata /\ ~sm.hasJsonLd),
                                    When(Len(sm.types) < 2, "notice")
                                    \o When(sm.hasMicrodata /\ ~sm.hasJsonLd, "notice"))
              /\ Category(9).score \in SchemaScores
    /\ {analyzeSchema([schemaMarkup |-> sm]).score : sm \in SchemaMarkups} = SchemaScores

\* C21 witness: microdata without JSON-LD and a single schema type has been
\* analyzed: 55 and two notices
C21_Witness ==
    /\ Returned /\ Defined(audit.schemaMarkup)
    /\ audit.schemaMarkup.hasMicrodata /\ ~audit.schemaMarkup.hasJsonLd
    /\ Len(audit.schemaMarkup.types) = 1
    /\ ScoresWith(Category(9), 55, <<"notice", "notice">>)

SocialScores == {100, 70, 60, 30}

\* C22: Social Media Readiness scores 30 with no issue when the sub-record
\* is absent; otherwise 100 less 40 with a warning for incomplete Open Graph
\* tags and less 30 with a notice for incomplete Twitter tags; the scores
\* that occur are exactly 100, 70, 60 and 30
C22_Social ==
    /\ Returned =>
          LET social == audit.socialMeta
          IN  /\ ~Defined(social) => ScoresWith(Category(10), 30, <<>>)
              /\ Defined(social) =>
                    /\ ScoresWith(Category(10),
                                  100 - 40 * Ind(~social.ogComplete) - 30 * Ind(~social.twitterComplete),
                                  When(~social.ogComplete, "warning")
                                  \o When(~social.twitterComplete, "notice"))
                    /\ ~social.ogComplete =>
                          HasMessage(Category(10).issues, "Incomplete Open Graph tags.")
                    /\ ~social.twitterComplete =>
                          HasMessage(Category(10).issues, "Missing or incomplete Twitter Card tags.")
              /\ Category(10).score \in SocialScores
    /\ {analyzeSocialMeta([socialMeta |-> social]).score : social \in SocialMetas} = SocialScores

\* C22 witness: complete Open Graph tags with incomplete Twitter tags have
\* been analyzed: 70 and one notice
C22_Witness ==
    /\ Returned /\ Defined(audit.socialMeta)
    /\ audit.socialMeta.ogComplete /\ ~audit.socialMeta.twitterComplete
    /\ ScoresWith(Category(10), 70, <<"notice">>)

\* alt text coverage below 80%, in whole numbers
LowAltCoverage(acc) ==
    acc.totalImages > 0 /\ acc.imagesWithoutAlt > 0 /\ 5 * acc.imagesWithoutAlt > acc.totalImages

\* C23: with the accessibility sub-record present the score is 100 less 40
\* (critical) without viewport, less 25 (warning) without lang, less 20
\* (warning) when some image lacks alt text and coverage is below 80%, less
\* 15 (notice) when a form input has no label; coverage of exactly 80% is
\* not deducted and all four together give 0
C23_Accessibility ==
    Returned /\ Defined(audit.accessibility) =>
        LET acc == audit.accessibility
        IN  /\ ScoresWith(Category(11),
                          100 - 40 * Ind(~acc.hasViewport) - 25 * Ind(~acc.hasLangAttribute)
                              - 20 * Ind(LowAltCoverage(acc)) - 15 * Ind(acc.formInputsWithoutLabel > 0),
                          When(~acc.hasViewport, "critical") \o When(~acc.hasLangAttribute, "warning")
                          \o When(LowAltCoverage(acc), "warning")
                          \o When(acc.formInputsWithoutLabel > 0, "notice"))
            /\ 5 * acc.imagesWithoutAlt = acc.totalImages =>
                  ~HasMessage(Category(11).issues, "Alt text coverage.")
            /\ (~acc.hasViewport /\ ~acc.hasLangAttribute /\ LowAltCoverage(acc)
                /\ acc.formInputsWithoutLabel > 0) => Category(11).score = 0

\* C23 witness: 8 of 10 images with alt text (exactly 80%) and nothing else
\* wrong has been analyzed and kept 100
C23_Witness ==
    /\ Returned /\ Defined(audit.accessibility)
    /\ audit.accessibility.totalImages = 10 /\ audit.accessibility.imagesWithoutAlt = 2
    /\ ScoresWith(Category(11), 100, <<>>)

\* C23 second case: all four deductions together
C23_AllFour ==
    /\ Returned /\ Defined(audit.accessibility)
    /\ ~audit.accessibility.hasViewport /\ ~audit.accessibility.hasLangAttribute
    /\ LowAltCoverage(audit.accessibility) /\ audit.accessibility.formInputsWithoutLabel > 0
    /\ Category(11).score = 0

\* C24: with the content quality sub-record present: 25 (warning) for
\* readability grade above 14, else 10 (notice) above 12; 25 (warning) and
\* 20 (notice) for a keyword with occurrences missing from title and H1;
\* and only above 100 words 25 (warning) for density 0, else 20 (warning)
\* for density above 5; each pair is exclusive and the score stays >= 5
C24_ContentQuality ==
    Returned /\ Defined(audit.contentQuality) =>
        LET cq == audit.contentQuality
            issues == Category(12).issues
            veryHard == cq.readabilityGrade > 14
            hard == ~veryHard /\ cq.readabilityGrade > 12
            notInTitle == ~cq.hasKeywordInTitle /\ cq.keywordCount > 0
            notInH1 == ~cq.hasKeywordInH1 /\ cq.keywordCount > 0
            noKeyword == audit.wordCount > 100 /\ cq.keywordDensity = 0
            stuffed == audit.wordCount > 100 /\ cq.keywordDensity # 0 /\ cq.keywordDensity > 5
        IN  /\ ScoresWith(Category(12),
                          100 - 25 * Ind(veryHard) - 10 * Ind(hard) - 25 * Ind(notInTitle)
                              - 20 * Ind(notInH1) - 25 * Ind(noKeyword) - 20 * Ind(stuffed),
                          When(veryHard, "warning") \o When(hard, "notice")
                          \o When(notInTitle, "warning") \o When(notInH1, "notice")
                          \o When(noKeyword, "warning") \o When(stuffed, "warning"))
            /\ audit.wordCount <= 100 =>
                  /\ ~HasMessage(issues, "Target keyword not found in page content.")
                  /\ ~HasMessage(issues, "Keyword density is high.")
            /\ ~(HasMessage(issues, "Reading level is very high.")
                 /\ HasMessage(issues, "Reading level is moderately high."))
            /\ ~(HasMessage(issues, "Target keyword not found in page content.")
                 /\ HasMessage(issues, "Keyword density is high."))
            /\ Category(12).score >= 5

\* C24 witness: a page of exactly 100 words with keyword density 0 has been
\* analyzed without a density deduction
C24_Witness ==
    /\ Returned /\ Defined(audit.contentQuality)
    /\ audit.wordCount = 100 /\ audit.contentQuality.keywordDensity = 0
    /\ audit.contentQuality.readabilityGrade = 12
    /\ audit.contentQuality.hasKeywordInTitle /\ audit.contentQuality.hasKeywordInH1
    /\ ScoresWith(Category(12), 100, <<>>)

\* C24 second case: the lowest score, 5, with four deductions
C24_Lowest ==
    /\ Returned /\ Defined(audit.contentQuality)
    /\ ScoresWith(Category(12), 5, <<"warning", "warning", "notice", "warning">>)

\* the three-band additions of the comprehensiveness score
Band(n, high, low, full, part) == IF n >= high THEN full ELSE IF n >= low THEN part ELSE 0

ComprehensivenessScore(cc) ==
    Min(100, (IF cc.contentSections >= 5 THEN 25 ELSE IF cc.contentSections >= 3 THEN 15 ELSE 5)
             + Band(Len(cc.topicCoverage), 8, 4, 20, 10)
             + 15 * Ind(cc.hasFAQ) + 10 * Ind(cc.hasTableOfContents)
             + Band(cc.entityCount, 10, 5, 15, 8)
             + Band(cc.estimatedReadTimeMin, 5, 3, 15, 8))

ComprehensivenessSeverities(cc) ==
    When(cc.contentSections < 3, "warning") \o When(Len(cc.topicCoverage) < 4, "notice")
    \o When(~cc.hasFAQ, "notice") \o When(cc.estimatedReadTimeMin < 3, "notice")

MidRecord ==
    [contentSections |-> 3, topicCoverage |-> Items(4), hasFAQ |-> TRUE,
     hasTableOfContents |-> TRUE, entityCount |-> 5, estimatedReadTimeMin |-> 3]

\* the upper ends of the middle bands: 4 sections, 7 topics, 9 entities, 4 minutes
UpperMidRecords ==
    {[MidRecord EXCEPT !.contentSections = 4], [MidRecord EXCEPT !.topicCoverage = Items(7)],
     [MidRecord EXCEPT !.entityCount = 9], [MidRecord EXCEPT !.estimatedReadTimeMin = 4]}

\* C25: with the comprehensiveness sub-record present the score is the sum,
\* capped at 100, of 25/15/5 for sections (warning below 3), 20/10/0 for
\* topics (notice below 4), 15 for a FAQ (notice without), 10 for a table of
\* contents, 15/8/0 for entities and 15/8/0 for read time (notice below 3);
\* it lies between 5 and 100 and carries at most 4 issues
C25_Comprehensiveness ==
    /\ Returned /\ Defined(audit.contentComprehensiveness) =>
          LET cc == audit.contentComprehensiveness
          IN  /\ ScoresWith(Category(15), ComprehensivenessScore(cc), ComprehensivenessSeverities(cc))
              /\ Category(15).score \in 5..100
              /\ Len(Category(15).issues) <= 4
    /\ \A cc \in UpperMidRecords :
          ScoresWith(analyzeContentComprehensiveness([contentComprehensiveness |-> cc]), 66, <<>>)

\* C25 witness: a record with 2 sections, 3 topics, no FAQ, no table of
\* contents, 4 entities and 2 minutes has been analyzed: 5 and four issues
C25_Witness ==
    /\ Returned /\ Defined(audit.contentComprehensiveness)
    /\ audit.contentComprehensiveness.contentSections = 2
    /\ ScoresWith(Category(15), 5, <<"warning", "notice", "notice", "notice">>)

\* C25 second case: every part at its highest gives exactly 100
C25_Full ==
    /\ Returned /\ Defined(audit.contentComprehensiveness)
    /\ ScoresWith(Category(15), 100, <<>>)

\* the category with its weightedScore recomputed by the generic formula
Normalized(category) ==
    [category EXCEPT !.weightedScore = Weighted(category.score, category.maxScore)]

\* the overall score were the three phase 3 analyzers to use the generic formula
NormalizedOverall(categories) ==
    MathRound(SumWeighted([i \in 1..Len(categories) |->
                              IF i >= 13 THEN Normalized(categories[i]) ELSE categories[i]],
                          Len(categories)))

MismatchOnly ==
    [hasNoindex |-> FALSE, hasNofollow |-> FALSE, canonicalStatus |-> "mismatch",
     hasRedirectChain |-> FALSE]

\* C26: the two weighting formulas are not interchangeable: Indexability can
\* score 70, for which round(score * maxScore) / 100 is not score / 100 *
\* maxScore; whenever it does, the category's weightedScore is not what the
\* generic formula gives, and for the bare page with phase 3 scores 70, 15,
\* 38 and performance 30 the overall score is 31 against 30
C26_NotInterchangeable ==
    /\ LET c == analyzeIndexability([indexability |-> MismatchOnly])
       IN  c.score = 70 /\ c.weightedScore # Weighted(c.score, c.maxScore)
    /\ Returned /\ Category(13).score = 70 =>
          Category(13).weightedScore # Normalized(Category(13)).weightedScore
    /\ (Returned /\ audit = RoundingAudit /\ Defined(vitals) /\ vitals.performanceScore = 30) =>
          /\ result.overall = 31
          /\ NormalizedOverall(result.categories) = 30

\* C26 witness: the bare page with phase 3 scores 70, 15, 38 and performance
\* 30 has been analyzed and the generic formula would change its overall score
C26_Witness ==
    /\ Returned /\ audit = RoundingAudit /\ Defined(vitals) /\ vitals.performanceScore = 30
    /\ Category(13).score = 70 /\ Category(14).score = 15 /\ Category(15).score = 38
    /\ result.overall # NormalizedOverall(result.categories)

\* the fifteen category names of the specification's table, in order
SpecifiedNames ==
    <<"Title Tag", "Meta Description", "Heading Structure", "Image Optimization",
      "Link Hygiene", "Content Depth", "Performance", "Security & Best Practices",
      "Schema & Structured Data", "Social Media Readiness", "Accessibility",
      "Content Quality", "Indexability", "E-E-A-T Signals", "Content Comprehensiveness">>

\* C27 as claimed: on every return path, the absent-data early returns
\* included, the name of the i-th category of the result is the i-th name of
\* the specification's table
C27_CategoryNames ==
    Returned =>
        /\ Len(result.categories) = Len(SpecifiedNames)
        /\ \A i \in 1..Len(SpecifiedNames) : Category(i).name = SpecifiedNames[i]

\* C28: an overall score of 0 is unreachable and the smallest overall score
\* is 7: Heading Structure never scores below 20, Image Optimization below
\* 15, Content Depth below 10, Schema below 20, Social below 30, and Content
\* Quality falls below 30 only above 100 words, where Content Depth is at
\* least 40
C28_OverallAtLeast7 ==
    Returned =>
        /\ result.overall >= 7
        /\ Category(3).score >= 20
        /\ Category(4).score >= 15
        /\ Category(6).score >= 10
        /\ Category(9).score >= 20
        /\ Category(10).score >= 30
        /\ Category(12).score < 30 => audit.wordCount > 100 /\ Category(6).score >= 40

\* C28 witness: the page on which every analyzer finds all it can find has
\* been analyzed with a performance score of 0: every category is at its
\* lowest and the overall score is 7
C28_Witness ==
    /\ Returned /\ audit = WorstAudit
    /\ Defined(vitals) /\ vitals.performanceScore = 0
    /\ [i \in 1..15 |-> Category(i).score] = <<0, 0, 20, 15, 0, 10, 0, 0, 20, 30, 0, 30, 0, 0, 0>>
    /\ result.overall = 7

\* C28 second case: content quality below 30 on a page of 101 words
C28_LowQuality ==
    /\ Returned /\ audit.wordCount = 101
    /\ Category(12).score = 5 /\ Category(6).score = 40
    /\ Category(3).score = 20 /\ Category(4).score = 15
    /\ result.overall = 9

(***************************************************************************)
(* Job manager properties                                                  *)
(***************************************************************************)
Created == Defined(job)
StepStatus(i) == job.steps[i].status
Steps == 1..Len(STEP_LABELS)
Ended == Created /\ job.status \in {"completed", "failed"}

\* what holds of a job whose status is 'completed' or 'failed'
EndedAsClaimed ==
    /\ job.status = "completed" =>
          /\ \A i \in Steps : StepStatus(i) = "completed"
          /\ "report" \in DOMAIN job
    /\ job.status = "failed" =>
          /\ "error" \in DOMAIN job /\ job.error # ""
          /\ "report" \notin DOMAIN job
          /\ \A i \in Steps : StepStatus(i) # "running"
          /\ \E k \in Steps :
                /\ StepStatus(k) = "failed"
                /\ \A i \in Steps : i < k => StepStatus(i) = "completed"
                /\ \A i \in Steps : i > k => StepStatus(i) = "pending"

\* C29: every job that createAuditJob creates ends 'completed' or 'failed'
\* once its awaited calls have returned or thrown, and never leaves that
\* status; while 'completed' all seven steps are 'completed' and the report
\* is set; while 'failed' an error message is set, no report is set and no
\* step is 'running' (the step that was running is 'failed', the later ones
\* are 'pending'); a step in which the vitals, SERP, competitor or
\* recommendation call fails and is caught does not leave the job 'failed'
C29_JobEnds ==
    /\ [](Created => EndedAsClaimed)
    /\ [][Ended => job' = job]_vars
    /\ [][console' # console => job'.status # "failed"]_vars
    /\ (Created ~> Ended)

\* C29 witness: a job of which the vitals, the SERP and the recommendation
\* call all failed has ended 'completed' with its report
C29_Witness ==
    /\ Created /\ job.status = "completed" /\ "report" \in DOMAIN job
    /\ \A i \in Steps : StepStatus(i) = "completed"
    /\ {console[i] : i \in DOMAIN console} =
          {"[Audit] Vitals fetch failed:", "[Audit] SERP fetch failed:",
           "[Audit] AI recommendations failed:"}

\* C29 second case: a job has failed while its competitors were identified:
\* step 5 is 'failed', steps 1 to 4 are 'completed', steps 6 and 7 'pending'
C29_FailedMidway ==
    /\ Created /\ job.status = "failed" /\ job.error = "Invalid URL"
    /\ [i \in Steps |-> StepStatus(i)] =
          <<"completed", "completed", "completed", "completed", "failed", "pending", "pending">>

\* C29 third case: a competitor audit failed and the job went on to complete
C29_CompetitorFailed ==
    /\ Created /\ job.status = "completed"
    /\ \E i \in DOMAIN console : console[i] = "[Audit] Competitor crawl failed"

\* what holds of the steps of a job in every state
StepsInOrder ==
    /\ Cardinality({i \in Steps : StepStatus(i) = "running"}) <= 1
    /\ \A i \in Steps :
          StepStatus(i) # "pending" => \A k \in Steps : k < i => StepStatus(k) = "completed"
    /\ calls <= 1
    /\ calls = 1 => StepStatus(1) = "completed" /\ StepStatus(3) = "completed"

\* what holds of every step of processAudit
StepsMoveForward ==
    Created =>
        /\ \A i \in Steps :
              /\ StepStatus(i) # "pending" => job'.steps[i].status # "pending"
              /\ StepStatus(i) \in {"completed", "failed"} =>
                    job'.steps[i].status = StepStatus(i)
        /\ calls' # calls =>
              /\ calls' = calls + 1
              /\ StepStatus(1) = "completed"
              /\ job'.steps[3].status = "completed"

=============================================================================
